---- MODULE Spec2Model ----
(***************************************************************************)
(* MASSP WAES/WS: the Encoder (build_waes.py), the Audit (audit.py) and    *)
(* the per-mode pipeline of solve.py, as a state machine.                  *)
(*                                                                         *)
(* Numbers.  Python floats are modelled as exact fixed-point rationals: an *)
(* integer u stands for the real u / One, One == Scale * Scale.  Every     *)
(* input (demand, share, w, solved value) is a multiple of 1 / Scale, so   *)
(* the product of two inputs is a whole number of units and Mul is exact.  *)
(* Floating-point rounding error is not modelled.                          *)
(*                                                                         *)
(* Index tuples (N, M, A, T, ...) are Python tuples: sequences here, in    *)
(* the order the loader sorts them; the instances drawn have no repeated   *)
(* entry in an index tuple.                                                *)
(***************************************************************************)
EXTENDS Integers, Sequences, FiniteSets, TLC

VARIABLES
    instance,   \* InstanceData: the loaded, validated instance
    ws_mode,    \* build_waes_model / run_audits argument
    tol,        \* run_audits argument (audit_tol), in units
    pc,         \* position in _run_one_mode / build_waes_model
    model,      \* WAESModel under construction / built
    response,   \* primal solution vector returned by the solver
    solved,     \* SolvedValues: x_aijk, y_tija, y_tj
    report,     \* AuditReport
    win,        \* window-function harness: the last call and its result
    errors,     \* validate_instance: the failed checks (its errors list)
    modes,      \* main: the modes still to run, the current one first
    written,    \* the modes whose solution CSVs were written, in order
    solved_by_mode, \* main: the objective of each mode run so far
    poll        \* solve_milp_payload: repoll_tries, tries, the responses received

vars == <<instance, ws_mode, tol, pc, model, response, solved, report, win, errors,
          modes, written, solved_by_mode, poll>>

-----------------------------------------------------------------------------
(* Bounds of the model                                                     *)

\* resolution of the fixed-point grid: inputs are multiples of 1 / Scale
Scale == 2
\* solved values range over 0, 1/Scale, ..., MaxVal/Scale
MaxVal == 2
\* a solver vector differs from a uniform vector in at most MaxDev entries
MaxDev == 2
\* audit tolerance ranges over 0 .. MaxTol units
MaxTol == 2
\* window harness: horizon up to MaxN, offsets/release bounds up to MaxOff
MaxN == 3
MaxTries == 3
MaxOff == 3

One == Scale * Scale

\* k / Scale as a fixed-point number
Grid(k) == k * Scale

\* float(k) for an int k
Float(k) == k * One

\* a * b for two fixed-point numbers (exact on the input grid)
Mul(a, b) == (a * b) \div One

Abs(a) == IF a < 0 THEN -a ELSE a

Min2(a, b) == IF a <= b THEN a ELSE b

Max2(a, b) == IF a >= b THEN a ELSE b

-----------------------------------------------------------------------------
(* Python containers                                                       *)

Range(seq) == {seq[p] : p \in DOMAIN seq}

RECURSIVE SumSeq(_)
\* sum(...) over a generator; exact arithmetic, so the order of the additions
\* does not matter and the sequence is summed by halves
SumSeq(seq) ==
    IF seq = <<>> THEN 0
    ELSE IF Len(seq) = 1 THEN seq[1]
    ELSE LET mid == Len(seq) \div 2
         IN  SumSeq(SubSeq(seq, 1, mid)) + SumSeq(SubSeq(seq, mid + 1, Len(seq)))

\* sorted(S) for a finite set of integers: the p-th entry has p - 1 smaller ones
SortedSeq(S) ==
    [p \in 1..Cardinality(S) |->
        CHOOSE x \in S : Cardinality({y \in S : y < x}) = p - 1]

RECURSIVE Flatten(_)
\* concatenation of a sequence of sequences (nested for-loops, outer first)
Flatten(ss) ==
    IF ss = <<>> THEN <<>>
    ELSE IF Len(ss) = 1 THEN ss[1]
    ELSE LET mid == Len(ss) \div 2
         IN  Flatten(SubSeq(ss, 1, mid)) \o Flatten(SubSeq(ss, mid + 1, Len(ss)))

\* range(lo, hi + 1) as a sequence; empty when hi < lo
RangeSeq(lo, hi) == [p \in 1..(hi - lo + 1) |-> lo + p - 1]

\* dict.get(key, default)
Get(dict, key, default) == IF key \in DOMAIN dict THEN dict[key] ELSE default

\* dict[key] = value
Put(dict, key, value) ==
    [k \in DOMAIN dict \cup {key} |-> IF k = key THEN value ELSE dict[k]]

\* the empty dict
EmptyDict == [k \in {} |-> 0]

-----------------------------------------------------------------------------
(* instance.py: loading                                                    *)

RECURSIVE InsertSorted(_, _)
InsertSorted(x, seq) ==
    IF seq = <<>> THEN <<x>>
    ELSE IF x <= seq[1] THEN <<x>> \o seq
    ELSE <<seq[1]>> \o InsertSorted(x, Tail(seq))

RECURSIVE ToSortedTuple(_)
\* _to_sorted_tuple: tuple(sorted(values)), repeated entries kept
ToSortedTuple(values) ==
    IF values = <<>> THEN <<>>
    ELSE InsertSorted(values[1], ToSortedTuple(Tail(values)))

\* _compute_b_matrix: b[(k, j)] = 1 iff shift j covers interval k
ComputeBMatrix(N, M, shift_start, shift_length) ==
    LET n == CHOOSE x \in Range(N) : \A y \in Range(N) : x >= y
        end(j) == Min2(n, shift_start[j] + shift_length[j] - 1)
    IN  [kj \in Range(N) \X Range(M) |->
            IF shift_start[kj[2]] <= kj[1] /\ kj[1] <= end(kj[2]) THEN 1 ELSE 0]

\* _compute_break_windows: Oj[j] = the relative pattern shifted to the start
\* of full-time shift j, entries outside N dropped
ComputeBreakWindows(M1, shift_start, break_window_relative, N) ==
    [j \in Range(M1) |->
        SelectSeq([p \in DOMAIN break_window_relative |->
                      shift_start[j] + break_window_relative[p] - 1],
                  LAMBDA i : i \in Range(N))]

\* load_instance, from the parsed JSON object `raw` up to the InstanceData
\* constructor (N defaults to 1..n, Oj is derived from break_window_relative)
LoadInstance(raw) ==
    LET N  == ToSortedTuple(RangeSeq(1, raw.n))
        M1 == ToSortedTuple(raw.M1)
        M2 == ToSortedTuple(raw.M2)
        M  == ToSortedTuple(M1 \o M2)
    IN  [ n  |-> raw.n,
          N  |-> N,
          M1 |-> M1,
          M2 |-> M2,
          M  |-> M,
          A  |-> ToSortedTuple(raw.A),
          B  |-> ToSortedTuple(raw.B),
          C  |-> ToSortedTuple(raw.C),
          A1 |-> ToSortedTuple(raw.A1),
          A2 |-> ToSortedTuple(raw.A2),
          T  |-> ToSortedTuple(raw.T),
          Ga |-> raw.Ga,
          d  |-> raw.demand,
          s  |-> raw.s,
          v  |-> raw.v,
          r  |-> raw.r,
          Ta |-> raw.Ta,
          Ht |-> raw.Ht,
          c  |-> raw.c,
          q  |-> raw.q,
          p  |-> raw.p,
          f  |-> raw.f,
          Oj |-> ComputeBreakWindows(M1, raw.shift_start,
                                     raw.break_window_relative, N),
          w  |-> raw.w,
          b  |-> ComputeBMatrix(N, M, raw.shift_start, raw.shift_length),
          shift_start  |-> raw.shift_start,
          shift_length |-> raw.shift_length,
          shift_cost_multiplier |-> raw.shift_cost_multiplier ]

\* validate_instance: the set of failed checks (the `errors` list, as a set)
FailedChecks(inst) ==
    LET set_M1 == Range(inst.M1)
        set_M2 == Range(inst.M2)
        set_M  == Range(inst.M)
        set_A  == Range(inst.A)
        set_B  == Range(inst.B)
        set_C  == Range(inst.C)
        set_A1 == Range(inst.A1)
        set_A2 == Range(inst.A2)
        set_T  == Range(inst.T)
        set_N  == Range(inst.N)
    IN  {e \in
          {IF set_M1 \cap set_M2 # {} THEN "M1 and M2 must be disjoint." ELSE "",
           IF set_M # (set_M1 \cup set_M2) THEN "M must equal M1 union M2." ELSE "",
           IF set_B \cap set_C # {} THEN "B and C must be disjoint." ELSE "",
           IF set_A # (set_B \cup set_C) THEN "A must equal B union C." ELSE "",
           IF set_A1 \cap set_A2 # {} THEN "A1 and A2 must be disjoint." ELSE "",
           IF set_A # (set_A1 \cup set_A2) THEN "A must equal A1 union A2." ELSE "",
           IF inst.N # RangeSeq(1, inst.n) THEN "N must be exactly {1, ..., n}." ELSE "",
           IF \E j \in set_M : j \notin DOMAIN inst.shift_start
               THEN "Missing shift_start." ELSE "",
           IF \E j \in set_M : j \notin DOMAIN inst.shift_length
               THEN "Missing shift_length." ELSE "",
           IF \E j \in set_M : j \notin DOMAIN inst.shift_cost_multiplier
               THEN "Missing shift_cost_multiplier." ELSE "",
           IF \E j \in set_M, k \in set_N : <<k, j>> \notin DOMAIN inst.b
               THEN "Missing b." ELSE "",
           IF \E j \in set_M, k \in set_N :
                  <<k, j>> \in DOMAIN inst.b /\ inst.b[<<k, j>>] \notin {0, 1}
               THEN "b must be 0/1." ELSE "",
           IF \E a \in set_B, i \in set_N : <<a, i>> \notin DOMAIN inst.d
               THEN "Missing demand d." ELSE "",
           IF \E a \in set_C : a \notin DOMAIN inst.Ga
               THEN "Missing Ga." ELSE "",
           IF \E a \in set_C : a \in DOMAIN inst.Ga
                  /\ \E g \in Range(inst.Ga[a]) : <<a, g>> \notin DOMAIN inst.s
               THEN "Missing s." ELSE "",
           IF \E a \in set_A1 : a \notin DOMAIN inst.v THEN "Missing v." ELSE "",
           IF \E a \in set_A2 : a \notin DOMAIN inst.r THEN "Missing r." ELSE "",
           IF \E a \in set_A : a \notin DOMAIN inst.Ta \/ inst.Ta[a] = <<>>
               THEN "Missing/empty Ta." ELSE "",
           IF \E t \in set_T : t \notin DOMAIN inst.Ht \/ inst.Ht[t] = <<>>
               THEN "Missing/empty Ht." ELSE "",
           IF \E t \in set_T : t \notin DOMAIN inst.c THEN "Missing cost c." ELSE "",
           IF \E a \in set_A : \E t \in Range(Get(inst.Ta, a, <<>>)) : t \notin set_T
               THEN "Ta has unknown profile." ELSE "",
           IF \E a \in set_A : \E t \in Range(Get(inst.Ta, a, <<>>)) :
                  a \notin Range(Get(inst.Ht, t, <<>>))
               THEN "Inconsistent Ta/Ht." ELSE "",
           IF \E t \in set_T : \E a \in Range(Get(inst.Ht, t, <<>>)) : a \notin set_A
               THEN "Ht includes unknown activity." ELSE "",
           IF \E t \in set_T : \E a \in Range(Get(inst.Ht, t, <<>>)) :
                  t \notin Range(Get(inst.Ta, a, <<>>))
               THEN "Inconsistent Ht/Ta." ELSE "",
           IF \E j \in set_M1 : j \notin DOMAIN inst.Oj THEN "Missing Oj." ELSE "",
           IF \E j \in set_M1 : j \in DOMAIN inst.Oj /\ Len(inst.Oj[j]) # inst.f
               THEN "Oj should have exactly f intervals." ELSE "",
           IF \E j \in set_M1 : j \in DOMAIN inst.Oj
                  /\ \E i \in Range(inst.Oj[j]) : i \notin set_N
               THEN "Oj contains i outside N." ELSE "",
           IF ~(0 <= inst.w /\ inst.w <= One) THEN "w must be in [0, 1]." ELSE "",
           IF inst.q <= 0 THEN "q must be positive." ELSE "",
           IF inst.p < 0 THEN "p must be nonnegative." ELSE "",
           IF inst.f <= 0 THEN "f must be positive." ELSE ""} : e # ""}

\* the ValueError message naming only one of the failed checks
ValidationErrors_first_only(inst) ==
    IF FailedChecks(inst) = {} THEN {}
    ELSE {CHOOSE e \in FailedChecks(inst) : TRUE}

\* the failed checks the ValueError message lists: all of them
ValidationErrors(inst) == FailedChecks(inst)

\* validate_instance returns without raising
validate_instance(inst) == ValidationErrors(inst) = {}

-----------------------------------------------------------------------------
(* build_waes.py: the Encoder                                              *)

\* for x in seq: <body>, where the body yields a sequence; results in order
Loop(seq, Body(_)) == Flatten([p \in DOMAIN seq |-> Body(seq[p])])

\* Bound = Union[float, str]: a number, "inf" or "ninf"
Num(val) == [kind |-> "num", val |-> val]

Inf == [kind |-> "inf", val |-> 0]

NInf == [kind |-> "ninf", val |-> 0]

\* the loop indices an equation instance is reported with (the f-string
\* `detail`), or the variable an integrality check is about
Detail(var, key) == [var |-> var, key |-> key]

\* the equation and loop indices of a constraint row
Tag(eq, key) == [equation |-> eq, detail |-> Detail("", key)]

\* abs(coeff) <= 1e-12 in add_row: 1e-12 is below one unit of the grid
DropEps == 0

\* _until_a1 with the clip to the horizon left out
enc_until_a1_unclipped(inst, i_or_k, a, ws) ==
    LET v_a == IF ws THEN 0 ELSE inst.v[a]
    IN  i_or_k + v_a

\* _until_a1 (Encoder copy): deadline_end
enc_until_a1(inst, i_or_k, a, ws) ==
    LET v_a == IF ws THEN 0 ELSE inst.v[a]
    IN  Min2(i_or_k + v_a, inst.n)

\* _until_a2 with the guard against a release bound before the index left out
enc_until_a2_unguarded(inst, i_or_k, a, ws) ==
    IF ws THEN i_or_k
    ELSE LET r_a == inst.r[a]
         IN  IF r_a <= 0 THEN i_or_k
             ELSE Min2(r_a, inst.n)

\* _until_a2 (Encoder copy): release_end
enc_until_a2(inst, i_or_k, a, ws) ==
    IF ws THEN i_or_k
    ELSE LET r_a == inst.r[a]
         IN  IF r_a <= 0 THEN i_or_k
             ELSE Max2(i_or_k, Min2(r_a, inst.n))

\* the model before any variable or row is added (locals of build_waes_model)
EmptyModel(ws) ==
    [ variable_names  |-> <<>>,
      variable_types  |-> <<>>,
      objective_coeffs |-> <<>>,
      variable_lb     |-> <<>>,
      variable_ub     |-> <<>>,
      csr_offsets     |-> <<0>>,
      csr_indices     |-> <<>>,
      csr_values      |-> <<>>,
      constraint_lb   |-> <<>>,
      constraint_ub   |-> <<>>,
      x_aijk          |-> EmptyDict,
      y_tija          |-> EmptyDict,
      y_tj            |-> EmptyDict,
      ws_mode         |-> ws,
      row_tags        |-> <<>> ]

\* the (a, i, j, k) keys in creation order
XKeySeq(inst) ==
    Loop(inst.A, LAMBDA a :
      Loop(inst.N, LAMBDA i :
        Loop(inst.M, LAMBDA j :
          Loop(inst.N, LAMBDA k : << <<a, i, j, k>> >>))))

\* the (t, i, j, a) keys in creation order
YIKeySeq(inst) ==
    Loop(inst.T, LAMBDA t :
      Loop(inst.N, LAMBDA i :
        Loop(inst.M, LAMBDA j :
          Loop(inst.A, LAMBDA a : << <<t, i, j, a>> >>))))

\* the (t, j) keys in creation order
YSKeySeq(inst) ==
    Loop(inst.T, LAMBDA t :
      Loop(inst.M, LAMBDA j : << <<t, j>> >>))

\* the keys of a catalog numbered from 0, whatever was created before
IndexKeys_per_catalog(dict, keys, base) ==
    [key \in DOMAIN dict \cup Range(keys) |->
        IF key \in Range(keys)
        THEN (CHOOSE p \in DOMAIN keys :
                 keys[p] = key /\ \A o \in DOMAIN keys : keys[o] = key => o <= p) - 1
        ELSE dict[key]]

\* dict[keys[p]] = base + p - 1 for p = 1, 2, ...: a later entry with the
\* same key overwrites an earlier one
IndexKeys(dict, keys, base) ==
    [key \in DOMAIN dict \cup Range(keys) |->
        IF key \in Range(keys)
        THEN base - 1 + (CHOOSE p \in DOMAIN keys :
                            keys[p] = key /\ \A o \in DOMAIN keys : keys[o] = key => o <= p)
        ELSE dict[key]]

\* add_var once per key, in order: the five parallel lists grow by one entry
\* per key, and the index returned for keys[p] is len(variable_names) + p - 1
AddVars(m, prefix, keys, Obj(_), ub) ==
    [m EXCEPT !.variable_names   = @ \o [p \in DOMAIN keys |-> <<prefix>> \o keys[p]],
              !.objective_coeffs = @ \o [p \in DOMAIN keys |-> Obj(keys[p])],
              !.variable_lb      = @ \o [p \in DOMAIN keys |-> Num(0)],
              !.variable_ub      = @ \o [p \in DOMAIN keys |-> ub],
              !.variable_types   = @ \o [p \in DOMAIN keys |-> "I"]]

\* x_aijk[key] = add_var(name, 0.0, 0.0, float(q), "I") for each key
AddXVars(m, inst, keys) ==
    [AddVars(m, "x", keys, LAMBDA key : 0, Num(Float(inst.q)))
        EXCEPT !.x_aijk = IndexKeys(@, keys, Len(m.variable_names))]

\* y_tija[key] = add_var(name, 0.0, 0.0, float(q), "I") for each key
AddYIVars(m, inst, keys) ==
    [AddVars(m, "y", keys, LAMBDA key : 0, Num(Float(inst.q)))
        EXCEPT !.y_tija = IndexKeys(@, keys, Len(m.variable_names))]

\* the y_tj variables priced at c[t], the shift's cost multiplier left out
AddYSVars_unit_cost(m, inst, keys) ==
    [AddVars(m, "y", keys, LAMBDA key : inst.c[key[1]], Num(Float(inst.q)))
        EXCEPT !.y_tj = IndexKeys(@, keys, Len(m.variable_names))]

\* y_tj[key] = add_var(name, c[t] * shift_cost_multiplier[j], 0.0, float(q), "I")
AddYSVars(m, inst, keys) ==
    [AddVars(m, "y", keys,
             LAMBDA key : Mul(inst.c[key[1]], inst.shift_cost_multiplier[key[2]]),
             Num(Float(inst.q)))
        EXCEPT !.y_tj = IndexKeys(@, keys, Len(m.variable_names))]

\* Eq. (11): the three variable-creation loops
CreateVariables(m, inst) ==
    AddYSVars(AddYIVars(AddXVars(m, inst, XKeySeq(inst)),
                        inst, YIKeySeq(inst)),
              inst, YSKeySeq(inst))

\* row[idx] = row.get(idx, 0.0) + coeff, for each <<idx, coeff>> of terms:
\* every index met gets an entry, holding what it held plus all its terms
Accumulate(row, terms) ==
    [idx \in DOMAIN row \cup {terms[p][1] : p \in DOMAIN terms} |->
        Get(row, idx, 0)
          + SumSeq([p \in DOMAIN terms |->
                      IF terms[p][1] = idx THEN terms[p][2] ELSE 0])]

\* the columns of a row with the near-zero ones kept
StoredCols_with_zeros(coeffs) == SortedSeq(DOMAIN coeffs)

\* the columns of a row left in an order other than ascending (descending)
StoredCols_unsorted(coeffs) ==
    LET cols == SelectSeq(SortedSeq(DOMAIN coeffs),
                          LAMBDA var_idx : ~(Abs(coeffs[var_idx]) <= DropEps))
    IN  [p \in DOMAIN cols |-> cols[Len(cols) + 1 - p]]

\* the columns add_row stores for a row: ascending, near-zero ones dropped
StoredCols(coeffs) ==
    SelectSeq(SortedSeq(DOMAIN coeffs),
              LAMBDA var_idx : ~(Abs(coeffs[var_idx]) <= DropEps))

\* add_row: one row appended to the CSR arrays and the bound lists
add_row(m, coeffs, lb, ub) ==
    LET cols == StoredCols(coeffs)
        indices == m.csr_indices \o cols
    IN  [m EXCEPT !.csr_indices   = indices,
                  !.csr_values    = @ \o [p \in DOMAIN cols |-> coeffs[cols[p]]],
                  !.csr_offsets   = Append(@, Len(indices)),
                  !.constraint_lb = Append(@, lb),
                  !.constraint_ub = Append(@, ub)]

\* add_row, recording which equation and loop indices the row belongs to
EmitRow(m, coeffs, lb, ub, tag) ==
    [add_row(m, coeffs, lb, ub) EXCEPT !.row_tags = Append(@, tag)]

\* the add_row calls of one loop nest, in loop order: the appends of the
\* successive calls add up to concatenations, and the offset appended by the
\* q-th call is the number of entries stored by then
EmitRows(m, rows) ==
    LET cols == [q \in DOMAIN rows |-> StoredCols(rows[q].coeffs)]
        vals == [q \in DOMAIN rows |->
                    [p \in DOMAIN cols[q] |-> rows[q].coeffs[cols[q][p]]]]
        lens == [q \in DOMAIN rows |-> Len(cols[q])]
    IN  [m EXCEPT !.csr_indices   = @ \o Flatten(cols),
                  !.csr_values    = @ \o Flatten(vals),
                  !.csr_offsets   = @ \o [q \in DOMAIN rows |->
                                            Len(m.csr_indices) + SumSeq(SubSeq(lens, 1, q))],
                  !.constraint_lb = @ \o [q \in DOMAIN rows |-> rows[q].lb],
                  !.constraint_ub = @ \o [q \in DOMAIN rows |-> rows[q].ub],
                  !.row_tags      = @ \o [q \in DOMAIN rows |-> rows[q].tag]]

\* sorted(set(X) & set(Y))
SortedInter(X, Y) == SortedSeq(Range(X) \cap Range(Y))

\* the demand-side terms with the coverage factor b[(k, j)] left out
WindowTerms_uncovered(m, inst, a, i, until) ==
    Loop(inst.M, LAMBDA j :
      Loop(RangeSeq(i, until), LAMBDA k :
        << <<m.x_aijk[<<a, i, j, k>>], Float(1)>> >>))

\* the demand-side terms of a window row: b[(k, j)] on x[(a, i, j, k)]
WindowTerms(m, inst, a, i, until) ==
    Loop(inst.M, LAMBDA j :
      Loop(RangeSeq(i, until), LAMBDA k :
        << <<m.x_aijk[<<a, i, j, k>>], Float(inst.b[<<k, j>>])>> >>))

\* the parent terms summed over the origins up to k only
ParentTerms_past_origins(m, inst, a, k) ==
    Loop(inst.Ga[a], LAMBDA a_parent :
      Loop(inst.M, LAMBDA j :
        Loop(RangeSeq(1, k), LAMBDA i :
          << <<m.x_aijk[<<a_parent, i, j, k>>], -inst.s[<<a, a_parent>>]>> >>)))

\* the parent terms of a dependent row: -s[(a, a_parent)] on x[(a_parent, i, j, k)]
ParentTerms(m, inst, a, k) ==
    Loop(inst.Ga[a], LAMBDA a_parent :
      Loop(inst.M, LAMBDA j :
        Loop(inst.N, LAMBDA i :
          << <<m.x_aijk[<<a_parent, i, j, k>>], -inst.s[<<a, a_parent>>]>> >>)))

\* Eq. (2) rows emitted as lower bounds only
Eq2Rows_at_least(m, inst, ws) ==
    Loop(inst.N, LAMBDA i :
      Loop(SortedInter(inst.B, inst.A1), LAMBDA a :
        LET until == enc_until_a1(inst, i, a, ws)
            rhs   == inst.d[<<a, i>>]
        IN  << [coeffs |-> Accumulate(EmptyDict, WindowTerms(m, inst, a, i, until)),
                lb |-> Num(rhs), ub |-> Inf,
                tag |-> Tag("Eq(2)", <<i, a>>)] >>))

\* Eq. (2): independent A1 demand rows
Eq2Rows(m, inst, ws) ==
    Loop(inst.N, LAMBDA i :
      Loop(SortedInter(inst.B, inst.A1), LAMBDA a :
        LET until == enc_until_a1(inst, i, a, ws)
            rhs   == inst.d[<<a, i>>]
        IN  << [coeffs |-> Accumulate(EmptyDict, WindowTerms(m, inst, a, i, until)),
                lb |-> Num(rhs), ub |-> Num(rhs),
                tag |-> Tag("Eq(2)", <<i, a>>)] >>))

\* Eq. (3): independent A2 demand rows
Eq3Rows(m, inst, ws) ==
    Loop(inst.N, LAMBDA i :
      Loop(SortedInter(inst.B, inst.A2), LAMBDA a :
        LET until == enc_until_a2(inst, i, a, ws)
            rhs   == inst.d[<<a, i>>]
        IN  << [coeffs |-> Accumulate(EmptyDict, WindowTerms(m, inst, a, i, until)),
                lb |-> Num(rhs), ub |-> Num(rhs),
                tag |-> Tag("Eq(3)", <<i, a>>)] >>))

\* Eq. (4): dependent A1 rows
Eq4Rows(m, inst, ws) ==
    Loop(inst.N, LAMBDA k :
      Loop(SortedInter(inst.C, inst.A1), LAMBDA a :
        LET until == enc_until_a1(inst, k, a, ws)
        IN  << [coeffs |-> Accumulate(
                              Accumulate(EmptyDict, WindowTerms(m, inst, a, k, until)),
                              ParentTerms(m, inst, a, k)),
                lb |-> Num(0), ub |-> Inf,
                tag |-> Tag("Eq(4)", <<k, a>>)] >>))

\* Eq. (5): dependent A2 rows
Eq5Rows(m, inst, ws) ==
    Loop(inst.N, LAMBDA k :
      Loop(SortedInter(inst.C, inst.A2), LAMBDA a :
        LET until == enc_until_a2(inst, k, a, ws)
        IN  << [coeffs |-> Accumulate(
                              Accumulate(EmptyDict, WindowTerms(m, inst, a, k, until)),
                              ParentTerms(m, inst, a, k)),
                lb |-> Num(0), ub |-> Inf,
                tag |-> Tag("Eq(5)", <<k, a>>)] >>))

\* the Eq. (6) rows with every origin summed, later ones (i > k) included
Eq6Rows_all_origins(m, inst) ==
    Loop(inst.N, LAMBDA k :
      Loop(inst.M, LAMBDA j :
        Loop(inst.A, LAMBDA a :
          << [coeffs |-> Accumulate(
                  Accumulate(EmptyDict,
                      Loop(inst.N, LAMBDA i :
                          << <<m.x_aijk[<<a, i, j, k>>], Float(1)>> >>)),
                  Loop(inst.Ta[a], LAMBDA t :
                      << <<m.y_tija[<<t, k, j, a>>], -Float(1)>> >>)),
              lb |-> NInf, ub |-> Num(0),
              tag |-> Tag("Eq(6)", <<k, j, a>>)] >>)))

\* Eq. (6): interval capacity coupling rows
Eq6Rows(m, inst) ==
    Loop(inst.N, LAMBDA k :
      Loop(inst.M, LAMBDA j :
        Loop(inst.A, LAMBDA a :
          << [coeffs |-> Accumulate(
                  Accumulate(EmptyDict,
                      Loop(RangeSeq(1, k), LAMBDA i :
                          << <<m.x_aijk[<<a, i, j, k>>], Float(1)>> >>)),
                  Loop(inst.Ta[a], LAMBDA t :
                      << <<m.y_tija[<<t, k, j, a>>], -Float(1)>> >>)),
              lb |-> NInf, ub |-> Num(0),
              tag |-> Tag("Eq(6)", <<k, j, a>>)] >>)))

\* the Eq. (7) rows summed over every activity, capable or not
Eq7Rows_all_activities(m, inst) ==
    Loop(inst.N, LAMBDA i :
      Loop(inst.M, LAMBDA j :
        Loop(inst.T, LAMBDA t :
          << [coeffs |-> Accumulate(
                  Accumulate(EmptyDict,
                      Loop(inst.A, LAMBDA a :
                          << <<m.y_tija[<<t, i, j, a>>], Float(1)>> >>)),
                  << <<m.y_tj[<<t, j>>], -Float(1)>> >>),
              lb |-> NInf, ub |-> Num(0),
              tag |-> Tag("Eq(7)", <<i, j, t>>)] >>)))

\* Eq. (7): profile-shift assignment coupling rows
Eq7Rows(m, inst) ==
    Loop(inst.N, LAMBDA i :
      Loop(inst.M, LAMBDA j :
        Loop(inst.T, LAMBDA t :
          << [coeffs |-> Accumulate(
                  Accumulate(EmptyDict,
                      Loop(inst.Ht[t], LAMBDA a :
                          << <<m.y_tija[<<t, i, j, a>>], Float(1)>> >>)),
                  << <<m.y_tj[<<t, j>>], -Float(1)>> >>),
              lb |-> NInf, ub |-> Num(0),
              tag |-> Tag("Eq(7)", <<i, j, t>>)] >>)))

\* the Eq. (8) rows summed over the activities each profile can perform only
Eq8Rows_capable_only(m, inst) ==
    Loop(inst.N, LAMBDA i :
      << [coeffs |-> Accumulate(EmptyDict,
              Loop(inst.T, LAMBDA t :
                Loop(inst.M, LAMBDA j :
                  Loop(inst.Ht[t], LAMBDA a :
                    << <<m.y_tija[<<t, i, j, a>>], Float(1)>> >>)))),
          lb |-> NInf, ub |-> Num(Float(inst.q)),
          tag |-> Tag("Eq(8)", <<i>>)] >>)

\* Eq. (8): global concurrency cap rows
Eq8Rows(m, inst) ==
    Loop(inst.N, LAMBDA i :
      << [coeffs |-> Accumulate(EmptyDict,
              Loop(inst.T, LAMBDA t :
                Loop(inst.M, LAMBDA j :
                  Loop(inst.A, LAMBDA a :
                    << <<m.y_tija[<<t, i, j, a>>], Float(1)>> >>)))),
          lb |-> NInf, ub |-> Num(Float(inst.q)),
          tag |-> Tag("Eq(8)", <<i>>)] >>)

\* the Eq. (9) rows with the break allowance p forgotten
Eq9Rows_no_break(m, inst) ==
    Loop(inst.T, LAMBDA t :
      Loop(inst.M1, LAMBDA j :
        << [coeffs |-> Accumulate(
                Accumulate(EmptyDict,
                    Loop(inst.Oj[j], LAMBDA i :
                      Loop(inst.Ht[t], LAMBDA a :
                        << <<m.y_tija[<<t, i, j, a>>], Float(1)>> >>))),
                << <<m.y_tj[<<t, j>>], -Float(inst.f)>> >>),
            lb |-> NInf, ub |-> Num(0),
            tag |-> Tag("Eq(9)", <<t, j>>)] >>))

\* Eq. (9): full-time break-window cap rows
Eq9Rows(m, inst) ==
    Loop(inst.T, LAMBDA t :
      Loop(inst.M1, LAMBDA j :
        << [coeffs |-> Accumulate(
                Accumulate(EmptyDict,
                    Loop(inst.Oj[j], LAMBDA i :
                      Loop(inst.Ht[t], LAMBDA a :
                        << <<m.y_tija[<<t, i, j, a>>], Float(1)>> >>))),
                << <<m.y_tj[<<t, j>>], -Float(inst.f - inst.p)>> >>),
            lb |-> NInf, ub |-> Num(0),
            tag |-> Tag("Eq(9)", <<t, j>>)] >>))

\* the Eq. (10) row with the share w charged to the full-time shifts only
Eq10Row_full_time_share(m, inst) ==
       [coeffs |-> Accumulate(
            Accumulate(EmptyDict,
                Loop(inst.M2, LAMBDA j :
                  Loop(inst.T, LAMBDA t :
                    << <<m.y_tj[<<t, j>>], Float(1)>> >>))),
            Loop(inst.M1, LAMBDA j :
              Loop(inst.T, LAMBDA t :
                << <<m.y_tj[<<t, j>>], -inst.w>> >>))),
        lb |-> NInf, ub |-> Num(0),
        tag |-> Tag("Eq(10)", <<>>)]

\* Eq. (10): the part-time share cap row
Eq10Row(m, inst) ==
       [coeffs |-> Accumulate(
            Accumulate(EmptyDict,
                Loop(inst.M2, LAMBDA j :
                  Loop(inst.T, LAMBDA t :
                    << <<m.y_tj[<<t, j>>], Float(1)>> >>))),
            Loop(inst.M, LAMBDA j :
              Loop(inst.T, LAMBDA t :
                << <<m.y_tj[<<t, j>>], -inst.w>> >>))),
        lb |-> NInf, ub |-> Num(0),
        tag |-> Tag("Eq(10)", <<>>)]

\* the single add_row call of Eq. (10)
EmitEq10(m, inst) ==
    LET row == Eq10Row(m, inst)
    IN  EmitRow(m, row.coeffs, row.lb, row.ub, row.tag)

\* build_waes_model: the variables, then the nine row families in order
build_waes_model(inst, ws) ==
    LET m0 == CreateVariables(EmptyModel(ws), inst)
        m2 == EmitRows(m0, Eq2Rows(m0, inst, ws))
        m3 == EmitRows(m2, Eq3Rows(m2, inst, ws))
        m4 == EmitRows(m3, Eq4Rows(m3, inst, ws))
        m5 == EmitRows(m4, Eq5Rows(m4, inst, ws))
        m6 == EmitRows(m5, Eq6Rows(m5, inst))
        m7 == EmitRows(m6, Eq7Rows(m6, inst))
        m8 == EmitRows(m7, Eq8Rows(m7, inst))
        m9 == EmitRows(m8, Eq9Rows(m8, inst))
    IN  EmitEq10(m9, inst)

\* build_ws_model with the ws_mode flag not set
build_ws_model_deferring(inst) == build_waes_model(inst, FALSE)

\* build_ws_model: the WS baseline is build_waes_model with ws_mode = True
build_ws_model(inst) == build_waes_model(inst, TRUE)

\* the solver configurations a run may carry: none, or some settings
SolverConfigs == {EmptyDict, [time_limit |-> 1]}

\* WAESModel.to_server_payload: the request body for the solving service
to_server_payload(m, solver_config) ==
    LET payload ==
          [ csr_constraint_matrix |->
                [offsets |-> m.csr_offsets, indices |-> m.csr_indices,
                 values |-> m.csr_values],
            constraint_bounds |->
                [upper_bounds |-> m.constraint_ub, lower_bounds |-> m.constraint_lb],
            objective_data |->
                [coefficients |-> m.objective_coeffs,
                 scalability_factor |-> Float(1), offset |-> 0],
            variable_bounds |->
                [upper_bounds |-> m.variable_ub, lower_bounds |-> m.variable_lb],
            maximize |-> FALSE,
            variable_names |-> m.variable_names,
            variable_types |-> m.variable_types ]
    IN  IF solver_config # EmptyDict
        THEN ("solver_config" :> solver_config) @@ payload
        ELSE payload

-----------------------------------------------------------------------------
(* audit.py: the Audit                                                     *)

\* _until_a1 (Audit copy) with the deadline offset forgotten
aud_until_a1_origin_only(inst, i_or_k, a, ws) == Min2(i_or_k, inst.n)

\* _until_a1 (Audit copy)
aud_until_a1(inst, i_or_k, a, ws) ==
    LET v_a == IF ws THEN 0 ELSE inst.v[a]
    IN  Min2(i_or_k + v_a, inst.n)

\* _until_a2 (Audit copy)
aud_until_a2(inst, i_or_k, a, ws) ==
    IF ws THEN i_or_k
    ELSE LET r_a == inst.r[a]
         IN  IF r_a <= 0 THEN i_or_k
             ELSE Max2(i_or_k, Min2(r_a, inst.n))

AuditIssue(eq, detail, violation) ==
    [equation |-> eq, detail |-> detail, violation |-> violation]

\* check_eq recording a gap that only reaches the tolerance
check_eq_inclusive(eq, lhs, rhs, detail, t) ==
    LET gap == Abs(lhs - rhs)
    IN  IF gap >= t THEN <<AuditIssue(eq, detail, gap)>> ELSE <<>>

\* check_eq: the issues it appends (none or one)
check_eq(eq, lhs, rhs, detail, t) ==
    LET gap == Abs(lhs - rhs)
    IN  IF gap > t THEN <<AuditIssue(eq, detail, gap)>> ELSE <<>>

\* check_le: the issues it appends (none or one)
check_le(eq, lhs, rhs, detail, t) ==
    LET gap == lhs - rhs
    IN  IF gap > t THEN <<AuditIssue(eq, detail, gap)>> ELSE <<>>

\* check_ge: the issues it appends (none or one)
check_ge(eq, lhs, rhs, detail, t) ==
    LET gap == rhs - lhs
    IN  IF gap > t THEN <<AuditIssue(eq, detail, gap)>> ELSE <<>>

\* the integer below the value in place of round(value)
RoundAt_down(value, one) == (value \div one) * one

\* round(value) of a value held in units of 1/one: nearest integer, ties to
\* the even one
RoundAt(value, one) ==
    LET lo  == value \div one
        rem == value % one
    IN  IF 2 * rem < one THEN lo * one
        ELSE IF 2 * rem > one THEN (lo + 1) * one
        ELSE IF lo % 2 = 0 THEN lo * one ELSE (lo + 1) * one

\* round(value) on the grid of the model
Round(value) == RoundAt(value, One)

\* sum(solved.x_aijk[(a, i, j, k)] * b[(k, j)] for j in M for k in range(i, until + 1))
WindowSum(inst, sv, a, i, until) ==
    SumSeq(Loop(inst.M, LAMBDA j :
             Loop(RangeSeq(i, until), LAMBDA k :
               << sv.x_aijk[<<a, i, j, k>>] * inst.b[<<k, j>>] >>)))

\* sum(s[(a, a_parent)] * sum(x[(a_parent, i, j, k)] for j in M for i in N)
\*     for a_parent in Ga[a])
ParentSum(inst, sv, a, k) ==
    SumSeq(Loop(inst.Ga[a], LAMBDA a_parent :
             << Mul(inst.s[<<a, a_parent>>],
                    SumSeq(Loop(inst.M, LAMBDA j :
                             Loop(inst.N, LAMBDA i :
                               << sv.x_aijk[<<a_parent, i, j, k>>] >>)))) >>))

AuditEq2(inst, sv, ws, t) ==
    Loop(inst.N, LAMBDA i :
      Loop(SortedInter(inst.B, inst.A1), LAMBDA a :
        check_eq("Eq(2)",
                 WindowSum(inst, sv, a, i, aud_until_a1(inst, i, a, ws)),
                 inst.d[<<a, i>>], Detail("", <<i, a>>), t)))

AuditEq3(inst, sv, ws, t) ==
    Loop(inst.N, LAMBDA i :
      Loop(SortedInter(inst.B, inst.A2), LAMBDA a :
        check_eq("Eq(3)",
                 WindowSum(inst, sv, a, i, aud_until_a2(inst, i, a, ws)),
                 inst.d[<<a, i>>], Detail("", <<i, a>>), t)))

AuditEq4(inst, sv, ws, t) ==
    Loop(inst.N, LAMBDA k :
      Loop(SortedInter(inst.C, inst.A1), LAMBDA a :
        check_ge("Eq(4)",
                 WindowSum(inst, sv, a, k, aud_until_a1(inst, k, a, ws)),
                 ParentSum(inst, sv, a, k), Detail("", <<k, a>>), t)))

\* the Eq. (5) block reporting under the tag of the block it was copied from
AuditEq5_tagged_eq4(inst, sv, ws, t) ==
    Loop(inst.N, LAMBDA k :
      Loop(SortedInter(inst.C, inst.A2), LAMBDA a :
        check_ge("Eq(4)",
                 WindowSum(inst, sv, a, k, aud_until_a2(inst, k, a, ws)),
                 ParentSum(inst, sv, a, k), Detail("", <<k, a>>), t)))

AuditEq5(inst, sv, ws, t) ==
    Loop(inst.N, LAMBDA k :
      Loop(SortedInter(inst.C, inst.A2), LAMBDA a :
        check_ge("Eq(5)",
                 WindowSum(inst, sv, a, k, aud_until_a2(inst, k, a, ws)),
                 ParentSum(inst, sv, a, k), Detail("", <<k, a>>), t)))

AuditEq6(inst, sv, t) ==
    Loop(inst.N, LAMBDA k :
      Loop(inst.M, LAMBDA j :
        Loop(inst.A, LAMBDA a :
          check_le("Eq(6)",
                   SumSeq(Loop(RangeSeq(1, k), LAMBDA i : << sv.x_aijk[<<a, i, j, k>>] >>)),
                   SumSeq(Loop(inst.Ta[a], LAMBDA tt : << sv.y_tija[<<tt, k, j, a>>] >>)),
                   Detail("", <<k, j, a>>), t))))

AuditEq7(inst, sv, t) ==
    Loop(inst.N, LAMBDA i :
      Loop(inst.M, LAMBDA j :
        Loop(inst.T, LAMBDA tt :
          check_le("Eq(7)",
                   SumSeq(Loop(inst.Ht[tt], LAMBDA a : << sv.y_tija[<<tt, i, j, a>>] >>)),
                   sv.y_tj[<<tt, j>>],
                   Detail("", <<i, j, tt>>), t))))

AuditEq8(inst, sv, t) ==
    Loop(inst.N, LAMBDA i :
      check_le("Eq(8)",
               SumSeq(Loop(inst.T, LAMBDA tt :
                        Loop(inst.M, LAMBDA j :
                          Loop(inst.A, LAMBDA a : << sv.y_tija[<<tt, i, j, a>>] >>)))),
               Float(inst.q), Detail("", <<i>>), t))

AuditEq9(inst, sv, t) ==
    Loop(inst.T, LAMBDA tt :
      Loop(inst.M1, LAMBDA j :
        check_le("Eq(9)",
                 SumSeq(Loop(inst.Oj[j], LAMBDA i :
                          Loop(inst.Ht[tt], LAMBDA a : << sv.y_tija[<<tt, i, j, a>>] >>))),
                 (inst.f - inst.p) * sv.y_tj[<<tt, j>>],
                 Detail("", <<tt, j>>), t)))

AuditEq10(inst, sv, t) ==
    check_le("Eq(10)",
             SumSeq(Loop(inst.M2, LAMBDA j :
                      Loop(inst.T, LAMBDA tt : << sv.y_tj[<<tt, j>>] >>))),
             Mul(inst.w, SumSeq(Loop(inst.M, LAMBDA j :
                                  Loop(inst.T, LAMBDA tt : << sv.y_tj[<<tt, j>>] >>)))),
             Detail("", <<>>), t)

\* whether tuple x comes before or at tuple y (same length) lexicographically
LexLeq(x, y) ==
    \/ x = y
    \/ \E p \in DOMAIN x : x[p] < y[p] /\ \A o \in 1..(p - 1) : x[o] = y[o]

RECURSIVE Items(_)
\* dict.items() of a solved-value map: its keys in insertion order, which for
\* the maps _collect_solution builds is the creation (lexicographic) order
Items(keys) ==
    IF keys = {} THEN <<>>
    ELSE LET m == CHOOSE x \in keys : \A y \in keys : LexLeq(x, y)
         IN  <<m>> \o Items(keys \ {m})

\* Eq. (11): integrality of x, y_tija, y_tj, the values and the tolerance
\* held in units of 1/one
AuditEq11At(sv, t, one) ==
    Loop(Items(DOMAIN sv.x_aijk), LAMBDA key :
        check_eq("Eq(11)", sv.x_aijk[key], RoundAt(sv.x_aijk[key], one), Detail("x", key), t))
    \o
    Loop(Items(DOMAIN sv.y_tija), LAMBDA key :
        check_eq("Eq(11)", sv.y_tija[key], RoundAt(sv.y_tija[key], one), Detail("y_tija", key), t))
    \o
    Loop(Items(DOMAIN sv.y_tj), LAMBDA key :
        check_eq("Eq(11)", sv.y_tj[key], RoundAt(sv.y_tj[key], one), Detail("y_tj", key), t))

\* Eq. (11) on the grid of the model
AuditEq11(sv, t) == AuditEq11At(sv, t, One)

AuditReport(passed, tolerance, issues) ==
    [passed |-> passed, tolerance |-> tolerance, issues |-> issues]

\* the issues list after the eleven families have been checked in order
AuditIssues(inst, sv, ws, t) ==
       AuditEq2(inst, sv, ws, t) \o AuditEq3(inst, sv, ws, t)
    \o AuditEq4(inst, sv, ws, t) \o AuditEq5(inst, sv, ws, t)
    \o AuditEq6(inst, sv, t) \o AuditEq7(inst, sv, t) \o AuditEq8(inst, sv, t)
    \o AuditEq9(inst, sv, t) \o AuditEq10(inst, sv, t)
    \o AuditEq11(sv, t)

\* run_audits giving up at the first breach it meets
run_audits_first_breach(inst, sv, ws, t) ==
    LET issues == AuditIssues(inst, sv, ws, t)
    IN  AuditReport(issues = <<>>, t,
                    IF issues = <<>> THEN <<>> ELSE <<issues[1]>>)

\* run_audits
run_audits(inst, sv, ws, t) ==
    LET issues == AuditIssues(inst, sv, ws, t)
    IN  AuditReport(issues = <<>>, t, issues)

-----------------------------------------------------------------------------
(* solve.py: the per-mode pipeline                                         *)

\* _build_mode / build_ws_model: the ws_mode flag build_waes_model is given
BuildModeFlag(mode) == mode = "ws"

\* _collect_solution: the three solved-value maps read off the primal vector
\* (vector[idx] with a 0-based idx)
CollectSolution(m, vector) ==
    [ x_aijk |-> [key \in DOMAIN m.x_aijk |-> vector[m.x_aijk[key] + 1]],
      y_tija |-> [key \in DOMAIN m.y_tija |-> vector[m.y_tija[key] + 1]],
      y_tj   |-> [key \in DOMAIN m.y_tj   |-> vector[m.y_tj[key] + 1]] ]

-----------------------------------------------------------------------------
(* Instances the model is run on (parsed instance.json objects)            *)

\* one independent deadline-bounded activity that may be postponed by one
\* interval; one full-time shift over both intervals with a two-interval
\* break window; one profile
Raw1 ==
    [ n |-> 2, M1 |-> <<1>>, M2 |-> <<>>,
      A |-> <<1>>, B |-> <<1>>, C |-> <<>>, A1 |-> <<1>>, A2 |-> <<>>,
      T |-> <<1>>,
      shift_start |-> (1 :> 1), shift_length |-> (1 :> 2),
      shift_cost_multiplier |-> (1 :> One),
      break_window_relative |-> <<1, 2>>,
      Ga |-> <<>>, s |-> <<>>,
      demand |-> (<<1, 1>> :> One @@ <<1, 2>> :> 0),
      v |-> (1 :> 1), r |-> <<>>,
      Ta |-> (1 :> <<1>>), Ht |-> (1 :> <<1>>), c |-> (1 :> One),
      q |-> 2, p |-> 1, f |-> 2, w |-> One ]

\* one independent release-bounded activity (r = 2); one part-time shift
\* that covers interval 2 only
Raw2 ==
    [ Raw1 EXCEPT !.M1 = <<>>, !.M2 = <<1>>, !.A1 = <<>>, !.A2 = <<1>>,
                  !.shift_start = (1 :> 2), !.shift_length = (1 :> 1),
                  !.break_window_relative = <<>>,
                  !.v = <<>>, !.r = (1 :> 2), !.p = 0, !.f = 1 ]

\* one interval; a dependent deadline-bounded activity 2 that must follow
\* half of its parent 1; one profile per activity
Raw3 ==
    [ Raw1 EXCEPT !.n = 1, !.A = <<1, 2>>, !.C = <<2>>, !.A1 = <<1, 2>>,
                  !.T = <<1, 2>>,
                  !.shift_length = (1 :> 1), !.break_window_relative = <<1>>,
                  !.Ga = (2 :> <<1>>), !.s = (<<2, 1>> :> Grid(1)),
                  !.demand = (<<1, 1>> :> One),
                  !.v = (1 :> 0 @@ 2 :> 0),
                  !.Ta = (1 :> <<1>> @@ 2 :> <<2>>),
                  !.Ht = (1 :> <<1>> @@ 2 :> <<2>>),
                  !.c = (1 :> One @@ 2 :> Float(2)),
                  !.q = 4, !.p = 0, !.f = 1 ]

\* a dependent release-bounded activity 2 (r = 2) with the independent
\* deadline-bounded parent 1 at full share; one profile doing both
Raw4 ==
    [ Raw1 EXCEPT !.A = <<1, 2>>, !.C = <<2>>, !.A2 = <<2>>,
                  !.Ga = (2 :> <<1>>), !.s = (<<2, 1>> :> One),
                  !.r = (2 :> 2),
                  !.Ta = (1 :> <<1>> @@ 2 :> <<1>>),
                  !.Ht = (1 :> <<1, 2>>) ]

\* one interval; a full-time and a part-time shift, part-time share at most
\* one half; the break is as long as the full-time shift (f = p)
Raw5 ==
    [ Raw1 EXCEPT !.n = 1, !.M2 = <<2>>,
                  !.shift_start = (1 :> 1 @@ 2 :> 1),
                  !.shift_length = (1 :> 1 @@ 2 :> 1),
                  !.shift_cost_multiplier = (1 :> One @@ 2 :> Grid(1)),
                  !.break_window_relative = <<1>>,
                  !.demand = (<<1, 1>> :> One),
                  !.v = (1 :> 0), !.p = 1, !.f = 1, !.w = Grid(1) ]

\* a negative deadline offset: every execution window is empty
Raw6 ==
    [ Raw1 EXCEPT !.demand = (<<1, 1>> :> 0 @@ <<1, 2>> :> 0),
                  !.v = (1 :> -1),
                  !.break_window_relative = <<1>>, !.p = 0, !.f = 1 ]

\* a dependent activity listed as its own parent at full share
Raw7 ==
    [ Raw1 EXCEPT !.B = <<>>, !.C = <<1>>,
                  !.Ga = (1 :> <<1>>), !.s = (<<1, 1>> :> One),
                  !.demand = <<>>,
                  !.break_window_relative = <<1>>, !.p = 0, !.f = 1 ]

\* three intervals; one activity of each of the four demand families; a
\* full-time shift over 1..2 and a part-time shift over 2..3; two profiles
Raw8 ==
    [ n |-> 3, M1 |-> <<1>>, M2 |-> <<2>>,
      A |-> <<4, 3, 2, 1>>, B |-> <<1, 2>>, C |-> <<3, 4>>,
      A1 |-> <<1, 3>>, A2 |-> <<2, 4>>,
      T |-> <<1, 2>>,
      shift_start |-> (1 :> 1 @@ 2 :> 2), shift_length |-> (1 :> 2 @@ 2 :> 2),
      shift_cost_multiplier |-> (1 :> One @@ 2 :> Grid(1)),
      break_window_relative |-> <<2>>,
      Ga |-> (3 :> <<1, 2>> @@ 4 :> <<3>>),
      s |-> (<<3, 1>> :> Grid(1) @@ <<3, 2>> :> One @@ <<4, 3>> :> Grid(1)),
      demand |-> [ai \in {1, 2} \X {1, 2, 3} |-> Float(ai[2])],
      v |-> (1 :> 1 @@ 3 :> 2), r |-> (2 :> 2 @@ 4 :> 0),
      Ta |-> (1 :> <<1>> @@ 2 :> <<1, 2>> @@ 3 :> <<2>> @@ 4 :> <<2>>),
      Ht |-> (1 :> <<1, 2>> @@ 2 :> <<2, 3, 4>>),
      c |-> (1 :> One @@ 2 :> Float(2)),
      q |-> 3, p |-> 0, f |-> 1, w |-> Grid(1) ]

\* a full-time and a part-time shift with no part-time headcount allowed
\* (w = 0)
Raw9 ==
    [ Raw5 EXCEPT !.w = 0, !.p = 0 ]

\* Raw4 with the shift over interval 1 only: no shift covers the window of
\* the dependent activity at interval 2
Raw10 ==
    [ Raw4 EXCEPT !.shift_length = (1 :> 1),
                  !.break_window_relative = <<1>>, !.p = 0, !.f = 1 ]

\* the scenario: two intervals, one full-time shift over both, one independent
\* deadline-bounded activity with v = 0 and demands 3 and 2, one profile able
\* to perform it, q = 10; no break is taken out of the shift
Scenario1 ==
    [ Raw1 EXCEPT !.demand = (<<1, 1>> :> Float(3) @@ <<1, 2>> :> Float(2)),
                  !.v = (1 :> 0), !.q = 10,
                  !.break_window_relative = <<1>>, !.p = 0, !.f = 1 ]

\* the scenario with a two-interval break window of which none is break
Scenario2 ==
    [ Scenario1 EXCEPT !.break_window_relative = <<1, 2>>, !.f = 2 ]

\* the scenario with a part-time shift and no cap on the part-time share
Scenario3 ==
    [ Scenario1 EXCEPT !.M1 = <<>>, !.M2 = <<1>> ]

\* the instances the loader accepts, among those drawn
Loaded(raws) ==
    {inst \in {LoadInstance(raw) : raw \in raws} : validate_instance(inst)}

\* instances small enough to enumerate solver vectors for
SmallInstances == Loaded({Raw1, Raw2, Raw3, Raw4, Raw5, Raw6, Raw7})

\* instances the Encoder alone is run on
EncoderInstances ==
    Loaded({Raw1, Raw2, Raw3, Raw4, Raw5, Raw6, Raw7, Raw8, Raw9, Raw10})

\* the instances of the scenario
ScenarioInstances == Loaded({Scenario1, Scenario2, Scenario3})

-----------------------------------------------------------------------------
(* The state machine                                                       *)

\* solve_milp_payload before it is called
NoPoll == [repoll_tries |-> 0, tries |-> 0, received |-> <<>>, returned |-> 0]

NoReport == AuditReport(FALSE, 0, <<>>)

NoSolved == [x_aijk |-> EmptyDict, y_tija |-> EmptyDict, y_tj |-> EmptyDict]

WindowFns == {"enc_until_a1", "aud_until_a1", "enc_until_a2", "aud_until_a2"}

\* the window harness before any call: the arguments (i_or_k, a), the functions
\* called so far and what each returned
NoWin == [i_or_k |-> 1, a |-> 1, called |-> {}, result |-> [fn \in WindowFns |-> 0]]

\* _run_one_mode is entered with a validated instance, a mode and audit_tol
Init ==
    /\ instance \in SmallInstances
    /\ ws_mode \in {BuildModeFlag(mode) : mode \in {"waes", "ws"}}
    /\ tol \in 0..MaxTol
    /\ pc = "start"
    /\ model = EmptyModel(ws_mode)
    /\ response = <<>>
    /\ solved = NoSolved
    /\ report = NoReport
    /\ win = NoWin
    /\ errors = {}
    /\ modes = <<>>
    /\ written = <<>>
    /\ solved_by_mode = EmptyDict
    /\ poll = NoPoll

\* build_waes_model is entered on its own
InitEncoder ==
    /\ instance \in EncoderInstances
    /\ ws_mode \in BOOLEAN
    /\ tol = 0
    /\ pc = "start"
    /\ model = EmptyModel(ws_mode)
    /\ response = <<>>
    /\ solved = NoSolved
    /\ report = NoReport
    /\ win = NoWin
    /\ errors = {}
    /\ modes = <<>>
    /\ written = <<>>
    /\ solved_by_mode = EmptyDict
    /\ poll = NoPoll

\* one block of build_waes_model: from position `from` to position `to`
BuildStep(from, to, next_model) ==
    /\ pc = from
    /\ model' = next_model
    /\ pc' = to
    /\ UNCHANGED <<instance, ws_mode, tol, response, solved, report, win,
                   errors, modes, written, solved_by_mode,
                   poll>>

BuildVars == BuildStep("start", "eq2", CreateVariables(model, instance))

BuildEq2 == BuildStep("eq2", "eq3", EmitRows(model, Eq2Rows(model, instance, ws_mode)))

BuildEq3 == BuildStep("eq3", "eq4", EmitRows(model, Eq3Rows(model, instance, ws_mode)))

BuildEq4 == BuildStep("eq4", "eq5", EmitRows(model, Eq4Rows(model, instance, ws_mode)))

BuildEq5 == BuildStep("eq5", "eq6", EmitRows(model, Eq5Rows(model, instance, ws_mode)))

BuildEq6 == BuildStep("eq6", "eq7", EmitRows(model, Eq6Rows(model, instance)))

BuildEq7 == BuildStep("eq7", "eq8", EmitRows(model, Eq7Rows(model, instance)))

BuildEq8 == BuildStep("eq8", "eq9", EmitRows(model, Eq8Rows(model, instance)))

BuildEq9 == BuildStep("eq9", "eq10", EmitRows(model, Eq9Rows(model, instance)))

BuildEq10 == BuildStep("eq10", "built", EmitEq10(model, instance))

\* the values a solved variable may take
ValSet == {Grid(k) : k \in 0..MaxVal}

\* the primal vectors the solver may return: a uniform vector changed in at
\* most MaxDev entries
SolverVectors(n_vars) ==
    {[p \in 1..n_vars |-> IF p \in DOMAIN dev THEN dev[p] ELSE centre] :
        centre \in {0, Grid(MaxVal)},
        dev \in UNION {[D -> ValSet] :
                          D \in {S \in SUBSET (1..n_vars) : Cardinality(S) <= MaxDev}}}

\* solve_milp_payload returns a solver response with a primal vector
Solve ==
    /\ pc = "built"
    /\ response' \in SolverVectors(Len(model.variable_names))
    /\ pc' = "solved"
    /\ UNCHANGED <<instance, ws_mode, tol, model, solved, report, win,
                   errors, modes, written, solved_by_mode,
                   poll>>

\* _collect_solution
Collect ==
    /\ pc = "solved"
    /\ solved' = CollectSolution(model, response)
    /\ pc' = "collected"
    /\ UNCHANGED <<instance, ws_mode, tol, model, response, report, win,
                   errors, modes, written, solved_by_mode,
                   poll>>

\* run_audits(instance, solved, ws_mode, tol)
Audit ==
    /\ pc = "collected"
    /\ report' = run_audits(instance, solved, ws_mode, tol)
    /\ pc' = "audited"
    /\ UNCHANGED <<instance, ws_mode, tol, model, response, solved, win,
                   errors, modes, written, solved_by_mode,
                   poll>>

\* the mode _build_mode was given, by its flag
ModeName(ws) == IF ws THEN "ws" ELSE "waes"

\* write_solution_csvs reached whatever the audit reported
Export_unaudited ==
    /\ pc = "audited"
    /\ written' = Append(written, ModeName(ws_mode))
    /\ pc' = "exported"
    /\ UNCHANGED <<instance, ws_mode, tol, model, response, solved, report, win,
                   errors, modes, solved_by_mode,
                   poll>>

\* the audit passed: write_solution_csvs into out_dir / mode
Export ==
    /\ pc = "audited"
    /\ report.passed
    /\ written' = Append(written, ModeName(ws_mode))
    /\ pc' = "exported"
    /\ UNCHANGED <<instance, ws_mode, tol, model, response, solved, report, win,
                   errors, modes, solved_by_mode,
                   poll>>

\* the audit did not pass: RuntimeError, nothing is written
AuditFailed ==
    /\ pc = "audited"
    /\ ~report.passed
    /\ pc' = "failed"
    /\ UNCHANGED <<instance, ws_mode, tol, model, response, solved, report, win,
                   errors, modes, written, solved_by_mode,
                   poll>>

Build ==
    \/ BuildVars \/ BuildEq2 \/ BuildEq3 \/ BuildEq4 \/ BuildEq5
    \/ BuildEq6 \/ BuildEq7 \/ BuildEq8 \/ BuildEq9 \/ BuildEq10

Next == Build \/ Solve \/ Collect \/ Audit \/ Export \/ AuditFailed

Spec == Init /\ [][Next]_vars

SpecEncoder == InitEncoder /\ [][Build]_vars

-----------------------------------------------------------------------------
(* The pipeline run on the scenario                                        *)

InitScenario ==
    /\ instance \in ScenarioInstances
    /\ ws_mode \in {BuildModeFlag(mode) : mode \in {"waes", "ws"}}
    /\ tol \in 0..MaxTol
    /\ pc = "start"
    /\ model = EmptyModel(ws_mode)
    /\ response = <<>>
    /\ solved = NoSolved
    /\ report = NoReport
    /\ win = NoWin
    /\ errors = {}
    /\ modes = <<>>
    /\ written = <<>>
    /\ solved_by_mode = EmptyDict
    /\ poll = NoPoll

\* the largest demand of the scenario's activity: the shift headcount
ScenarioHeadcount(inst) ==
    CHOOSE h \in {inst.d[ai] : ai \in DOMAIN inst.d} :
        \A ai \in DOMAIN inst.d : inst.d[ai] <= h

\* the value the scenario's assignment gives variable col: x[a,i,j,i] = d[a,i]
\* and 0 for k # i, y_tija[t,i,j,a] = d[a,i], y_tj[t,j] = the headcount
ScenarioValue(m, inst, col) ==
    IF \E key \in DOMAIN m.x_aijk : m.x_aijk[key] = col
    THEN LET key == CHOOSE key \in DOMAIN m.x_aijk : m.x_aijk[key] = col
         IN  IF key[4] = key[2] THEN inst.d[<<key[1], key[2]>>] ELSE 0
    ELSE IF \E key \in DOMAIN m.y_tija : m.y_tija[key] = col
    THEN LET key == CHOOSE key \in DOMAIN m.y_tija : m.y_tija[key] = col
         IN  inst.d[<<key[4], key[2]>>]
    ELSE ScenarioHeadcount(inst)

\* the scenario's assignment as a primal vector
ScenarioAssignment(m, inst) ==
    [p \in 1..Len(m.variable_names) |-> ScenarioValue(m, inst, p - 1)]

\* the values a variable of the scenario may take: 0 to 3 in steps of the grid
ScenarioValSet == {Grid(k) : k \in 0..(3 * Scale)}

\* the primal vectors the solver may return on the scenario: the scenario's
\* assignment, changed in at most one entry
ScenarioVectors(m, inst) ==
    {[ScenarioAssignment(m, inst) EXCEPT ![p] = value] :
        p \in 1..Len(m.variable_names), value \in ScenarioValSet}

\* solve_milp_payload returns a solver response with a primal vector
SolveScenario ==
    /\ pc = "built"
    /\ response' \in ScenarioVectors(model, instance)
    /\ pc' = "solved"
    /\ UNCHANGED <<instance, ws_mode, tol, model, solved, report, win,
                   errors, modes, written, solved_by_mode,
                   poll>>

NextScenario == Build \/ SolveScenario \/ Collect \/ Audit \/ Export \/ AuditFailed

SpecScenario == InitScenario /\ [][NextScenario]_vars

-----------------------------------------------------------------------------
(* The integrality block of run_audits on values near an integer           *)

\* the unit of the values and tolerances of this block: 1e-5
Fine == 100000

\* the distances from 2 tried, in units of 1e-5
FineOffsets == {0, 4, 10, 11, 20}

\* solved values around 2 (2.00004 and 2.0002 among them) and the ties 1.5
\* and 2.5
FineValues ==
    {2 * Fine + k : k \in FineOffsets} \cup {2 * Fine - k : k \in FineOffsets}
    \cup {Fine + Fine \div 2, 2 * Fine + Fine \div 2}

\* the tolerances tried: 0, 1e-4 and 0.5
FineTols == {0, 10, Fine \div 2}

\* solved values of one variable per catalog
FineSolved ==
    {[x_aijk |-> (<<1, 1, 1, 1>> :> vx),
      y_tija |-> (<<1, 1, 1, 1>> :> vy),
      y_tj   |-> (<<1, 1>> :> vs)] : vx \in FineValues, vy \in FineValues, vs \in FineValues}

InitIntegrality ==
    /\ instance \in Loaded({Raw5})
    /\ ws_mode = FALSE
    /\ tol \in FineTols
    /\ pc = "collected"
    /\ model = EmptyModel(ws_mode)
    /\ response = <<>>
    /\ solved \in FineSolved
    /\ report = NoReport
    /\ win = NoWin
    /\ errors = {}
    /\ modes = <<>>
    /\ written = <<>>
    /\ solved_by_mode = EmptyDict
    /\ poll = NoPoll

\* the Eq. (11) block of run_audits and the report made of its issues
AuditIntegrality ==
    /\ pc = "collected"
    /\ report' = LET issues == AuditEq11At(solved, tol, Fine)
                 IN  AuditReport(issues = <<>>, tol, issues)
    /\ pc' = "audited"
    /\ UNCHANGED <<instance, ws_mode, tol, model, response, solved, win,
                   errors, modes, written, solved_by_mode,
                   poll>>

NextIntegrality == AuditIntegrality

SpecIntegrality == InitIntegrality /\ [][NextIntegrality]_vars

-----------------------------------------------------------------------------
(* validate_instance called on loaded instances, valid or not              *)

\* a full-time break pattern that leaves the horizon: one interval of the
\* window is dropped by _compute_break_windows
RawShortBreak ==
    [ Raw1 EXCEPT !.break_window_relative = <<2, 3>> ]

\* the InstanceData objects load_instance builds, before validation
LoadedRaw ==
    {LoadInstance(raw) : raw \in {Raw1, Raw2, Raw3, Raw4, Raw5, Raw6, Raw7, Raw8,
                                  Raw9, Raw10, RawShortBreak}}

\* an InstanceData and the ones that differ from it in one field
Damaged(inst) ==
    {inst,
     [inst EXCEPT !.M2 = inst.M1],
     [inst EXCEPT !.M = @ \o <<9>>],
     [inst EXCEPT !.C = inst.B],
     [inst EXCEPT !.B = <<>>],
     [inst EXCEPT !.A2 = inst.A1],
     [inst EXCEPT !.A1 = <<>>],
     [inst EXCEPT !.N = SubSeq(@, 2, Len(@))],
     [inst EXCEPT !.N = @ \o <<inst.n + 1>>],
     [inst EXCEPT !.Ta = [a \in DOMAIN @ |-> @[a] \o <<9>>]],
     [inst EXCEPT !.Ht = [t \in DOMAIN @ |-> SubSeq(@[t], 1, 1)]],
     [inst EXCEPT !.Ta = [a \in DOMAIN @ |-> SubSeq(@[a], 1, 1)]],
     [inst EXCEPT !.Oj = [j \in DOMAIN @ |-> SubSeq(@[j], 2, Len(@[j]))]],
     [inst EXCEPT !.Oj = [j \in DOMAIN @ |-> [p \in DOMAIN @[j] |-> inst.n + p]]],
     [inst EXCEPT !.Oj = EmptyDict],
     [inst EXCEPT !.w = One + 1],
     [inst EXCEPT !.w = -1],
     [inst EXCEPT !.q = 0],
     [inst EXCEPT !.f = 0],
     [inst EXCEPT !.p = -1]}

\* the InstanceData objects validate_instance is called on: loaded ones with
\* up to two fields changed
ValidateInstances ==
    UNION {Damaged(once) : once \in UNION {Damaged(inst) : inst \in LoadedRaw}}

InitValidate ==
    /\ instance \in ValidateInstances
    /\ ws_mode = FALSE
    /\ tol = 0
    /\ pc = "constructed"
    /\ model = EmptyModel(ws_mode)
    /\ response = <<>>
    /\ solved = NoSolved
    /\ report = NoReport
    /\ win = NoWin
    /\ errors = {}
    /\ modes = <<>>
    /\ written = <<>>
    /\ solved_by_mode = EmptyDict
    /\ poll = NoPoll

\* validate_instance finds no failed check and returns
ValidateReturns ==
    /\ pc = "constructed"
    /\ validate_instance(instance)
    /\ errors' = ValidationErrors(instance)
    /\ pc' = "validated"
    /\ UNCHANGED <<instance, ws_mode, tol, model, response, solved, report, win,
                   modes, written, solved_by_mode,
                   poll>>

\* validate_instance raises ValueError with the failed checks
ValidateRaises ==
    /\ pc = "constructed"
    /\ ~validate_instance(instance)
    /\ errors' = ValidationErrors(instance)
    /\ pc' = "ValueError"
    /\ UNCHANGED <<instance, ws_mode, tol, model, response, solved, report, win,
                   modes, written, solved_by_mode,
                   poll>>

NextValidate == ValidateReturns \/ ValidateRaises

SpecValidate == InitValidate /\ [][NextValidate]_vars

-----------------------------------------------------------------------------
(* main: the modes run one after the other                                 *)

\* the instances main is run on
MainInstances == Loaded({Raw3, Raw5})

\* args.mode: "both" runs waes, then ws
ModeLists == {<<"waes">>, <<"ws">>, <<"waes", "ws">>}

\* the objective the solver reports for its primal vector
Objective(m, vector) ==
    SumSeq([p \in DOMAIN vector |-> Mul(m.objective_coeffs[p], vector[p])])

InitMain ==
    /\ instance \in MainInstances
    /\ modes \in ModeLists
    /\ ws_mode = BuildModeFlag(modes[1])
    /\ tol \in 0..MaxTol
    /\ pc = "start"
    /\ model = EmptyModel(ws_mode)
    /\ response = <<>>
    /\ solved = NoSolved
    /\ report = NoReport
    /\ win = NoWin
    /\ errors = {}
    /\ written = <<>>
    /\ solved_by_mode = EmptyDict
    /\ poll = NoPoll

\* _run_one_mode returned; main stores the result and goes on to the next mode
NextMode ==
    /\ pc = "exported"
    /\ Len(modes) > 1
    /\ solved_by_mode' = Put(solved_by_mode, modes[1], Objective(model, response))
    /\ modes' = Tail(modes)
    /\ ws_mode' = BuildModeFlag(modes[2])
    /\ pc' = "start"
    /\ model' = EmptyModel(BuildModeFlag(modes[2]))
    /\ response' = <<>>
    /\ solved' = NoSolved
    /\ report' = NoReport
    /\ UNCHANGED <<instance, tol, win, errors, written, poll>>

\* _run_one_mode returned for the last mode
LastMode ==
    /\ pc = "exported"
    /\ Len(modes) = 1
    /\ solved_by_mode' = Put(solved_by_mode, modes[1], Objective(model, response))
    /\ modes' = Tail(modes)
    /\ pc' = "ran"
    /\ UNCHANGED <<instance, ws_mode, tol, model, response, solved, report, win,
                   errors, written,
                   poll>>

\* the comparison raising already when the WAES objective is tol above the
\* WS one
waes_vs_ws_raises_at_tol(by_mode, t) ==
    /\ "waes" \in DOMAIN by_mode
    /\ "ws" \in DOMAIN by_mode
    /\ by_mode["waes"] - by_mode["ws"] >= t

\* _assert_waes_vs_ws raises: the WAES objective exceeds the WS one by more
\* than tol
waes_vs_ws_raises(by_mode, t) ==
    /\ "waes" \in DOMAIN by_mode
    /\ "ws" \in DOMAIN by_mode
    /\ by_mode["waes"] - by_mode["ws"] > t

\* _assert_waes_vs_ws returns
AssertReturns ==
    /\ pc = "ran"
    /\ ~waes_vs_ws_raises(solved_by_mode, tol)
    /\ pc' = "done"
    /\ UNCHANGED <<instance, ws_mode, tol, model, response, solved, report, win,
                   errors, modes, written, solved_by_mode,
                   poll>>

\* _assert_waes_vs_ws raises RuntimeError
AssertRaises ==
    /\ pc = "ran"
    /\ waes_vs_ws_raises(solved_by_mode, tol)
    /\ pc' = "objective_error"
    /\ UNCHANGED <<instance, ws_mode, tol, model, response, solved, report, win,
                   errors, modes, written, solved_by_mode,
                   poll>>

NextMain ==
    \/ Build \/ Solve \/ Collect \/ Audit \/ Export \/ AuditFailed
    \/ NextMode \/ LastMode \/ AssertReturns \/ AssertRaises

SpecMain == InitMain /\ [][NextMain]_vars

-----------------------------------------------------------------------------
(* cuopt_server.py: solve_milp_payload against an arbitrary server         *)

\* the shapes of a server response: whether it has the key 'response',
\* the request id under 'reqId' (0: no such key) and the solver_response
\* inside 'response' (0: no such key)
ServerResponses ==
    {[has_response |-> FALSE, reqId |-> id, solver_response |-> 0] : id \in 0..2}
    \cup {[has_response |-> TRUE, reqId |-> id, solver_response |-> sr] :
             id \in 0..1, sr \in 0..2}

\* the response the loop is looking at
CurrentResponse == poll.received[Len(poll.received)]

InitPoll ==
    /\ instance \in Loaded({Raw5})
    /\ ws_mode = FALSE
    /\ tol = 0
    /\ pc = "submit"
    /\ model = EmptyModel(ws_mode)
    /\ response = <<>>
    /\ solved = NoSolved
    /\ report = NoReport
    /\ win = NoWin
    /\ errors = {}
    /\ modes = <<>>
    /\ written = <<>>
    /\ solved_by_mode = EmptyDict
    /\ poll \in {[NoPoll EXCEPT !.repoll_tries = tries] : tries \in 0..MaxTries}

PollStep(from, to, next_poll) ==
    /\ pc = from
    /\ poll' = next_poll
    /\ pc' = to
    /\ UNCHANGED <<instance, ws_mode, tol, model, response, solved, report, win,
                   errors, modes, written, solved_by_mode>>

\* client.get_LP_solve(payload): the first response; tries = 0
GetLPSolve ==
    \E resp \in ServerResponses :
        PollStep("submit", "loop", [poll EXCEPT !.received = <<resp>>, !.tries = 0])

\* in the loop: neither 'response' nor 'reqId'
RaiseShape ==
    /\ pc = "loop"
    /\ ~CurrentResponse.has_response
    /\ CurrentResponse.reqId = 0
    /\ PollStep("loop", "RuntimeError", poll)

\* the TimeoutError raised one repoll early
RaiseTimeout_early ==
    /\ pc = "loop"
    /\ ~CurrentResponse.has_response
    /\ CurrentResponse.reqId # 0
    /\ poll.tries >= poll.repoll_tries - 1
    /\ PollStep("loop", "TimeoutError", poll)

\* in the loop: a request id only, and the repoll budget is used up
RaiseTimeout ==
    /\ pc = "loop"
    /\ ~CurrentResponse.has_response
    /\ CurrentResponse.reqId # 0
    /\ poll.tries >= poll.repoll_tries
    /\ PollStep("loop", "TimeoutError", poll)

\* in the loop: a request id only; client.repoll(reqId), tries += 1
Repoll ==
    /\ pc = "loop"
    /\ ~CurrentResponse.has_response
    /\ CurrentResponse.reqId # 0
    /\ ~(poll.tries >= poll.repoll_tries)
    /\ \E resp \in ServerResponses :
          PollStep("loop", "loop",
                   [poll EXCEPT !.received = Append(@, resp), !.tries = @ + 1])

\* the loop is left; _extract_solver_response finds no 'solver_response'
ExtractRaises ==
    /\ pc = "loop"
    /\ CurrentResponse.has_response
    /\ CurrentResponse.solver_response = 0
    /\ PollStep("loop", "RuntimeError", poll)

\* the loop is left; _extract_solver_response returns wrapped['solver_response']
ExtractReturns ==
    /\ pc = "loop"
    /\ CurrentResponse.has_response
    /\ CurrentResponse.solver_response # 0
    /\ PollStep("loop", "returned",
                [poll EXCEPT !.returned = CurrentResponse.solver_response])

NextPoll ==
    \/ GetLPSolve \/ RaiseShape \/ RaiseTimeout \/ Repoll
    \/ ExtractRaises \/ ExtractReturns

SpecPoll == InitPoll /\ [][NextPoll]_vars

\* the calls of a run are not put off for ever
SpecPollFair == SpecPoll /\ WF_vars(NextPoll)

-----------------------------------------------------------------------------
(* The dictionary lookups of build_waes_model and run_audits               *)

\* one subscript d[key]: the dictionary, the key, and whether the key is there
Lookup(name, key, found) == [dict |-> name, key |-> key, found |-> found]

\* the lookups that raise KeyError
Missing(lookups) == {l \in lookups : ~l.found}

\* the lookups of the variable creation: c[t] and shift_cost_multiplier[j]
CreationLookups(inst) ==
    {Lookup("c", <<t>>, t \in DOMAIN inst.c) : t \in Range(inst.T)}
    \cup {Lookup("shift_cost_multiplier", <<j>>,
                 j \in DOMAIN inst.shift_cost_multiplier) : j \in Range(inst.M)}

\* _until_a1: v[a], read in WAES mode only
UntilA1Lookups(inst, a, ws) ==
    IF ws THEN {} ELSE {Lookup("v", <<a>>, a \in DOMAIN inst.v)}

\* _until_a2: r[a], read in WAES mode only
UntilA2Lookups(inst, a, ws) ==
    IF ws THEN {} ELSE {Lookup("r", <<a>>, a \in DOMAIN inst.r)}

\* the window sum: x[(a, i, j, k)] and b[(k, j)] for j in M, k in i..until
WindowLookups(inst, xkeys, a, i, until) ==
    UNION {{Lookup("x_aijk", <<a, i, j, k>>, <<a, i, j, k>> \in xkeys),
            Lookup("b", <<k, j>>, <<k, j>> \in DOMAIN inst.b)} :
              j \in Range(inst.M), k \in i..until}

\* the parent sum: Ga[a], then s[(a, a_parent)] and x[(a_parent, i, j, k)]
\* for each a_parent of Ga[a], j in M, i in N
ParentLookups(inst, xkeys, a, k) ==
    {Lookup("Ga", <<a>>, a \in DOMAIN inst.Ga)}
    \cup (IF a \notin DOMAIN inst.Ga THEN {}
          ELSE UNION {{Lookup("s", <<a, a_parent>>, <<a, a_parent>> \in DOMAIN inst.s)}
                      \cup {Lookup("x_aijk", <<a_parent, i, j, k>>,
                                   <<a_parent, i, j, k>> \in xkeys) :
                              j \in Range(inst.M), i \in Range(inst.N)} :
                        a_parent \in Range(inst.Ga[a])})

\* Eq. (2) and (3): the window bound, the window sum and d[(a, i)]
IndependentLookups(inst, xkeys, a, i, bound, until) ==
    bound
    \cup (IF Missing(bound) # {} THEN {}
          ELSE WindowLookups(inst, xkeys, a, i, until)
               \cup {Lookup("d", <<a, i>>, <<a, i>> \in DOMAIN inst.d)})

\* Eq. (4) and (5): the window bound, the window sum and the parent sum
DependentLookups(inst, xkeys, a, k, bound, until) ==
    bound
    \cup (IF Missing(bound) # {} THEN {}
          ELSE WindowLookups(inst, xkeys, a, k, until)
               \cup ParentLookups(inst, xkeys, a, k))

\* Eq. (2)-(5), with the window functions of the Encoder or of the Audit
DemandLookups(inst, xkeys, ws, audit) ==
    UNION {
      UNION {IndependentLookups(inst, xkeys, a, i, UntilA1Lookups(inst, a, ws),
                 IF ~ws /\ a \notin DOMAIN inst.v THEN i
                 ELSE IF audit THEN aud_until_a1(inst, i, a, ws)
                      ELSE enc_until_a1(inst, i, a, ws)) :
               a \in Range(inst.B) \cap Range(inst.A1)}
      \cup UNION {IndependentLookups(inst, xkeys, a, i, UntilA2Lookups(inst, a, ws),
                 IF ~ws /\ a \notin DOMAIN inst.r THEN i
                 ELSE IF audit THEN aud_until_a2(inst, i, a, ws)
                      ELSE enc_until_a2(inst, i, a, ws)) :
               a \in Range(inst.B) \cap Range(inst.A2)}
      \cup UNION {DependentLookups(inst, xkeys, a, i, UntilA1Lookups(inst, a, ws),
                 IF ~ws /\ a \notin DOMAIN inst.v THEN i
                 ELSE IF audit THEN aud_until_a1(inst, i, a, ws)
                      ELSE enc_until_a1(inst, i, a, ws)) :
               a \in Range(inst.C) \cap Range(inst.A1)}
      \cup UNION {DependentLookups(inst, xkeys, a, i, UntilA2Lookups(inst, a, ws),
                 IF ~ws /\ a \notin DOMAIN inst.r THEN i
                 ELSE IF audit THEN aud_until_a2(inst, i, a, ws)
                      ELSE enc_until_a2(inst, i, a, ws)) :
               a \in Range(inst.C) \cap Range(inst.A2)} :
      i \in Range(inst.N)}

\* Eq. (6): x[(a, i, j, k)] for i in 1..k, Ta[a], y_tija[(t, k, j, a)]
Eq6Lookups(inst, xkeys, yikeys) ==
    UNION {{Lookup("x_aijk", <<a, i, j, k>>, <<a, i, j, k>> \in xkeys) : i \in 1..k}
           \cup {Lookup("Ta", <<a>>, a \in DOMAIN inst.Ta)}
           \cup (IF a \notin DOMAIN inst.Ta THEN {}
                 ELSE {Lookup("y_tija", <<t, k, j, a>>, <<t, k, j, a>> \in yikeys) :
                         t \in Range(inst.Ta[a])}) :
             k \in Range(inst.N), j \in Range(inst.M), a \in Range(inst.A)}

\* Eq. (7): Ht[t], y_tija[(t, i, j, a)] for a in Ht[t], y_tj[(t, j)]
Eq7Lookups(inst, yikeys, yskeys) ==
    UNION {{Lookup("Ht", <<t>>, t \in DOMAIN inst.Ht)}
           \cup (IF t \notin DOMAIN inst.Ht THEN {}
                 ELSE {Lookup("y_tija", <<t, i, j, a>>, <<t, i, j, a>> \in yikeys) :
                         a \in Range(inst.Ht[t])}
                      \cup {Lookup("y_tj", <<t, j>>, <<t, j>> \in yskeys)}) :
             i \in Range(inst.N), j \in Range(inst.M), t \in Range(inst.T)}

\* Eq. (8): y_tija[(t, i, j, a)] for t in T, j in M, a in A
Eq8Lookups(inst, yikeys) ==
    {Lookup("y_tija", <<t, i, j, a>>, <<t, i, j, a>> \in yikeys) :
       i \in Range(inst.N), t \in Range(inst.T), j \in Range(inst.M),
       a \in Range(inst.A)}

\* Eq. (9): Oj[j], Ht[t], y_tija[(t, i, j, a)] for i in Oj[j], a in Ht[t],
\* y_tj[(t, j)]
Eq9Lookups(inst, yikeys, yskeys) ==
    UNION {{Lookup("Oj", <<j>>, j \in DOMAIN inst.Oj)}
           \cup (IF j \notin DOMAIN inst.Oj THEN {}
                 ELSE IF inst.Oj[j] = <<>> THEN {Lookup("y_tj", <<t, j>>, <<t, j>> \in yskeys)}
                 ELSE {Lookup("Ht", <<t>>, t \in DOMAIN inst.Ht)}
                      \cup (IF t \notin DOMAIN inst.Ht THEN {}
                            ELSE {Lookup("y_tija", <<t, i, j, a>>,
                                         <<t, i, j, a>> \in yikeys) :
                                    i \in Range(inst.Oj[j]), a \in Range(inst.Ht[t])}
                                 \cup {Lookup("y_tj", <<t, j>>, <<t, j>> \in yskeys)})) :
             t \in Range(inst.T), j \in Range(inst.M1)}

\* Eq. (10): y_tj[(t, j)] for j in M2 and for j in M
Eq10Lookups(inst, yskeys) ==
    {Lookup("y_tj", <<t, j>>, <<t, j>> \in yskeys) :
       j \in Range(inst.M2) \cup Range(inst.M), t \in Range(inst.T)}

\* the lookups of the rows Eq. (2)-(10), in the catalogs the variable creation
\* filled
RowLookups(inst, ws, audit) ==
    LET xkeys  == Range(XKeySeq(inst))
        yikeys == Range(YIKeySeq(inst))
        yskeys == Range(YSKeySeq(inst))
    IN  DemandLookups(inst, xkeys, ws, audit)
        \cup Eq6Lookups(inst, xkeys, yikeys)
        \cup Eq7Lookups(inst, yikeys, yskeys)
        \cup Eq8Lookups(inst, yikeys)
        \cup Eq9Lookups(inst, yikeys, yskeys)
        \cup Eq10Lookups(inst, yskeys)

\* every lookup of build_waes_model(inst, ws)
BuildLookups(inst, ws) == CreationLookups(inst) \cup RowLookups(inst, ws, FALSE)

\* every lookup of run_audits(inst, solved, ws, tol) on the values
\* _collect_solution unpacked from the model built for inst
AuditLookups(inst, ws) == RowLookups(inst, ws, TRUE)

\* an activity number no instance lists in A
Stranger == 9

\* the InstanceData with g added to the parents of a at share one half
WithParent(inst, a, g) ==
    [inst EXCEPT !.Ga = [x \in DOMAIN @ |-> IF x = a THEN @[x] \o <<g>> ELSE @[x]],
                 !.s = (<<a, g>> :> Grid(1)) @@ @]

\* loaded instances with one more parent, listed in A or not, for one
\* dependent activity
ParentInstances ==
    UNION {UNION {{WithParent(inst, a, g) :
                     g \in (Range(inst.A) \cup {Stranger}) \ Range(inst.Ga[a])} :
                   a \in Range(inst.C) \cap DOMAIN inst.Ga} :
            inst \in LoadedRaw}

\* the instances validate_instance accepts, among those drawn
LookupInstances ==
    {inst \in ValidateInstances \cup ParentInstances : validate_instance(inst)}

InitLookup ==
    /\ instance \in LookupInstances
    /\ ws_mode \in {BuildModeFlag(mode) : mode \in {"waes", "ws"}}
    /\ tol = 0
    /\ pc = "validated"
    /\ model = EmptyModel(ws_mode)
    /\ response = <<>>
    /\ solved = NoSolved
    /\ report = NoReport
    /\ win = NoWin
    /\ errors = {}
    /\ modes = <<>>
    /\ written = <<>>
    /\ solved_by_mode = EmptyDict
    /\ poll = NoPoll

\* build_waes_model finds every key and returns the model
BuildReturns ==
    /\ pc = "validated"
    /\ Missing(BuildLookups(instance, ws_mode)) = {}
    /\ model' = build_waes_model(instance, ws_mode)
    /\ pc' = "built"
    /\ UNCHANGED <<instance, ws_mode, tol, response, solved, report, win,
                   errors, modes, written, solved_by_mode,
                   poll>>

\* build_waes_model looks up a key that is not there: KeyError
BuildRaises ==
    /\ pc = "validated"
    /\ Missing(BuildLookups(instance, ws_mode)) # {}
    /\ pc' = "KeyError"
    /\ UNCHANGED <<instance, ws_mode, tol, model, response, solved, report, win,
                   errors, modes, written, solved_by_mode,
                   poll>>

\* the solver returns a uniform primal vector; _collect_solution unpacks it
SolveUniform ==
    /\ pc = "built"
    /\ \E val \in ValSet :
          response' = [p \in 1..Len(model.variable_names) |-> val]
    /\ solved' = CollectSolution(model, response')
    /\ pc' = "collected"
    /\ UNCHANGED <<instance, ws_mode, tol, model, report, win,
                   errors, modes, written, solved_by_mode,
                   poll>>

\* run_audits on the unpacked values: the report, or KeyError
AuditUnpacked ==
    /\ pc = "collected"
    /\ IF Missing(AuditLookups(instance, ws_mode)) = {}
       THEN /\ report' = run_audits(instance, solved, ws_mode, tol)
            /\ pc' = "audited"
       ELSE /\ report' = report
            /\ pc' = "KeyError"
    /\ UNCHANGED <<instance, ws_mode, tol, model, response, solved, win,
                   errors, modes, written, solved_by_mode,
                   poll>>

NextLookup == BuildReturns \/ BuildRaises \/ SolveUniform \/ AuditUnpacked

SpecLookup == InitLookup /\ [][NextLookup]_vars

-----------------------------------------------------------------------------
(* main on instances with postponement windows: WAES, then WS              *)

\* a negative deadline offset with demand to serve: the WAES window is empty
Raw11 ==
    [ Raw6 EXCEPT !.demand = (<<1, 1>> :> One @@ <<1, 2>> :> 0) ]

\* instances with windows longer than one interval in each demand family,
\* and two whose deadline offset is negative
RestrictionInstances == Loaded({Raw1, Raw2, Raw4, Raw6, Raw7, Raw11})

\* the values an x variable takes in a primal vector
XVals == {0, Float(1)}

\* the values a y_tj variable takes in a primal vector
YVals == {0, Float(1), Float(2)}

\* the catalog key of column col
KeyOf(catalog, col) == CHOOSE key \in DOMAIN catalog : catalog[key] = col

\* the primal vector with x[key] = xs[key], y_tija[(t, i, j, a)] = yi[i] and
\* y_tj[(t, j)] = ys
VectorOf(m, xs, yi, ys) ==
    [p \in 1..Len(m.variable_names) |->
        IF \E key \in DOMAIN m.x_aijk : m.x_aijk[key] = p - 1
        THEN xs[KeyOf(m.x_aijk, p - 1)]
        ELSE IF \E key \in DOMAIN m.y_tija : m.y_tija[key] = p - 1
        THEN yi[KeyOf(m.y_tija, p - 1)[2]]
        ELSE ys]

\* the primal vectors the solver may return: any x, one staffing level per
\* interval, one headcount
RestrictionVectors(m, inst) ==
    {VectorOf(m, xs, yi, ys) :
        xs \in [DOMAIN m.x_aijk -> XVals],
        yi \in [Range(inst.N) -> XVals],
        ys \in YVals}

InitRestriction ==
    /\ instance \in RestrictionInstances
    /\ modes \in {<<"waes", "ws">>, <<"ws">>}
    /\ ws_mode = BuildModeFlag(modes[1])
    /\ tol \in {0, MaxTol}
    /\ pc = "start"
    /\ model = EmptyModel(ws_mode)
    /\ response = <<>>
    /\ solved = NoSolved
    /\ report = NoReport
    /\ win = NoWin
    /\ errors = {}
    /\ written = <<>>
    /\ solved_by_mode = EmptyDict
    /\ poll = NoPoll

\* _run_one_mode: build, solve, collect, audit; write the solution when the
\* audit passed, RuntimeError when it did not
RunOneMode ==
    /\ pc = "start"
    /\ model' = build_waes_model(instance, ws_mode)
    /\ response' \in RestrictionVectors(model', instance)
    /\ solved' = CollectSolution(model', response')
    /\ report' = run_audits(instance, solved', ws_mode, tol)
    /\ IF report'.passed
       THEN /\ written' = Append(written, ModeName(ws_mode))
            /\ pc' = "exported"
       ELSE /\ written' = written
            /\ pc' = "failed"
    /\ UNCHANGED <<instance, ws_mode, tol, win, errors, modes, solved_by_mode,
                   poll>>

NextRestriction ==
    RunOneMode \/ NextMode \/ LastMode \/ AssertReturns \/ AssertRaises

SpecRestriction == InitRestriction /\ [][NextRestriction]_vars

-----------------------------------------------------------------------------
(* The window functions called on their own                                *)

\* the fields of an instance the window functions read: horizon n, deadline
\* offset v[a] and release bound r[a] of one activity
WindowInstances ==
    {[n |-> n, v |-> (1 :> v), r |-> (1 :> r)] :
        n \in 1..MaxN, v \in (-MaxOff)..MaxOff, r \in (-MaxOff)..MaxOff}

InitWindow ==
    /\ instance \in WindowInstances
    /\ ws_mode \in BOOLEAN
    /\ win \in {[NoWin EXCEPT !.i_or_k = i] : i \in 1..instance.n}
    /\ tol = 0
    /\ pc = "window"
    /\ model = EmptyModel(ws_mode)
    /\ response = <<>>
    /\ solved = NoSolved
    /\ report = NoReport
    /\ errors = {}
    /\ modes = <<>>
    /\ written = <<>>
    /\ solved_by_mode = EmptyDict
    /\ poll = NoPoll

\* one call of a window function on the harness arguments
CallWindow(fn, value) ==
    /\ pc = "window"
    /\ fn \notin win.called
    /\ win' = [win EXCEPT !.called = @ \cup {fn}, !.result[fn] = value]
    /\ UNCHANGED <<instance, ws_mode, tol, pc, model, response, solved, report,
                   errors, modes, written, solved_by_mode,
                   poll>>

CallEncUntilA1 ==
    CallWindow("enc_until_a1", enc_until_a1(instance, win.i_or_k, win.a, ws_mode))

CallAudUntilA1 ==
    CallWindow("aud_until_a1", aud_until_a1(instance, win.i_or_k, win.a, ws_mode))

CallEncUntilA2 ==
    CallWindow("enc_until_a2", enc_until_a2(instance, win.i_or_k, win.a, ws_mode))

CallAudUntilA2 ==
    CallWindow("aud_until_a2", aud_until_a2(instance, win.i_or_k, win.a, ws_mode))

NextWindow == CallEncUntilA1 \/ CallAudUntilA1 \/ CallEncUntilA2 \/ CallAudUntilA2

SpecWindow == InitWindow /\ [][NextWindow]_vars

-----------------------------------------------------------------------------
(* Claims about the window functions (checked under SpecWindow)            *)

\* what the two copies of a window function returned, for those called
Returned(fns) == {win.result[fn] : fn \in fns \cap win.called}

\* C5 as stated: deadline_end is min(i + v[a], n) and at least i without
\* ws_mode, i with ws_mode, in both copies, which agree
C5_DeadlineEndAsStated ==
    /\ \A res \in Returned({"enc_until_a1", "aud_until_a1"}) :
          /\ ~ws_mode => /\ res = Min2(win.i_or_k + instance.v[win.a], instance.n)
                         /\ res >= win.i_or_k
          /\ ws_mode => res = win.i_or_k
    /\ Cardinality(Returned({"enc_until_a1", "aud_until_a1"})) <= 1

\* C5 amended: deadline_end is min(i + v[a], n) without ws_mode and i with
\* ws_mode, in both copies, which agree; it is at least i whenever ws_mode is
\* set or the deadline offset v[a] is not negative
C5_DeadlineEnd ==
    /\ \A res \in Returned({"enc_until_a1", "aud_until_a1"}) :
          /\ ~ws_mode => res = Min2(win.i_or_k + instance.v[win.a], instance.n)
          /\ ws_mode => res = win.i_or_k
          /\ (ws_mode \/ instance.v[win.a] >= 0) => res >= win.i_or_k
    /\ Cardinality(Returned({"enc_until_a1", "aud_until_a1"})) <= 1

\* both copies of deadline_end were called without ws_mode on a positive
\* offset that reaches past the horizon
C5_Witness ==
    /\ {"enc_until_a1", "aud_until_a1"} \subseteq win.called
    /\ ~ws_mode
    /\ instance.v[win.a] > 0
    /\ win.i_or_k + instance.v[win.a] > instance.n
    /\ win.result["enc_until_a1"] = instance.n

\* C6: release_end is at least k and at most n; it is k when r[a] <= 0 or
\* ws_mode is set and max(k, min(r[a], n)) otherwise; the two copies agree
C6_ReleaseEnd ==
    /\ \A res \in Returned({"enc_until_a2", "aud_until_a2"}) :
          /\ res >= win.i_or_k
          /\ res <= instance.n
          /\ (instance.r[win.a] <= 0 \/ ws_mode) => res = win.i_or_k
          /\ ~(instance.r[win.a] <= 0 \/ ws_mode)
                => res = Max2(win.i_or_k, Min2(instance.r[win.a], instance.n))
    /\ Cardinality(Returned({"enc_until_a2", "aud_until_a2"})) <= 1

\* both copies of release_end were called without ws_mode on a positive
\* release bound that lies before the index
C6_Witness ==
    /\ {"enc_until_a2", "aud_until_a2"} \subseteq win.called
    /\ ~ws_mode
    /\ instance.r[win.a] > 0
    /\ instance.r[win.a] < win.i_or_k
    /\ win.result["enc_until_a2"] = win.i_or_k

-----------------------------------------------------------------------------
(* Claims about the Encoder (checked under SpecEncoder)                    *)

NumRows(m) == Len(m.constraint_lb)

NumVars(m) == Len(m.variable_names)

\* the positions of row r in csr_indices / csr_values
RowPositions(m, r) == (m.csr_offsets[r] + 1)..m.csr_offsets[r + 1]

\* the stored (column, value) pairs of row r
RowEntries(m, r) == {<<m.csr_indices[p], m.csr_values[p]>> : p \in RowPositions(m, r)}

\* the coefficient row r has on column col: 0 when nothing is stored
RowCoeff(m, r, col) ==
    IF \E p \in RowPositions(m, r) : m.csr_indices[p] = col
    THEN m.csr_values[CHOOSE p \in RowPositions(m, r) : m.csr_indices[p] = col]
    ELSE 0

\* the rows emitted for one equation instance
RowsTagged(m, eq, key) == {r \in 1..NumRows(m) : m.row_tags[r] = Tag(eq, key)}

\* the rows emitted for one equation
RowsOf(m, eq) == {r \in 1..NumRows(m) : m.row_tags[r].equation = eq}

\* deadline_end and release_end as the claims state them
DeadlineEnd(inst, i, a, ws) == IF ws THEN i ELSE Min2(i + inst.v[a], inst.n)

ReleaseEnd(inst, k, a, ws) ==
    IF ws \/ inst.r[a] <= 0 THEN k ELSE Max2(k, Min2(inst.r[a], inst.n))

\* the window end of a demand row: deadline_end in the A1 families (Eq. 2 and
\* 4), release_end in the A2 families (Eq. 3 and 5)
WindowEnd(inst, eq, i, a, ws) ==
    IF eq \in {"Eq(2)", "Eq(4)"} THEN DeadlineEnd(inst, i, a, ws)
    ELSE ReleaseEnd(inst, i, a, ws)

\* C7: the built model has one variable per (a,i,j,k) in A x N x M x N, per
\* (t,i,j,a) in T x N x M x A and per (t,j) in T x M; the three key maps
\* together are a bijection onto 0..len(variable_names)-1; and each map is the
\* same as the one built for the other mode
C7_VariableSpace ==
    pc = "built" =>
      LET setA == Range(instance.A)
          setN == Range(instance.N)
          setM == Range(instance.M)
          setT == Range(instance.T)
          other == build_waes_model(instance, ~ws_mode)
          image == {model.x_aijk[key] : key \in DOMAIN model.x_aijk}
                   \cup {model.y_tija[key] : key \in DOMAIN model.y_tija}
                   \cup {model.y_tj[key] : key \in DOMAIN model.y_tj}
      IN  /\ DOMAIN model.x_aijk = setA \X setN \X setM \X setN
          /\ DOMAIN model.y_tija = setT \X setN \X setM \X setA
          /\ DOMAIN model.y_tj = setT \X setM
          /\ image = 0..(NumVars(model) - 1)
          /\ Cardinality(DOMAIN model.x_aijk) + Cardinality(DOMAIN model.y_tija)
               + Cardinality(DOMAIN model.y_tj) = NumVars(model)
          /\ model.x_aijk = other.x_aijk
          /\ model.y_tija = other.y_tija
          /\ model.y_tj = other.y_tj

\* a WS model is built whose catalog holds a combination with k < i
C7_Witness ==
    /\ pc = "built"
    /\ ws_mode
    /\ \E key \in DOMAIN model.x_aijk : key[4] < key[2]
    /\ NumVars(model) > Cardinality(DOMAIN model.x_aijk)

\* C8: CSR well-formedness: offsets has rows + 1 entries, starts at 0, never
\* decreases and ends at len(indices) = len(values); the bound lists have one
\* entry per row; within a row the columns strictly ascend and are variables
C8_CsrWellFormed ==
    pc = "built" =>
      LET rows == NumRows(model)
      IN  /\ Len(model.csr_offsets) = rows + 1
          /\ model.csr_offsets[1] = 0
          /\ \A r \in 1..rows : model.csr_offsets[r] <= model.csr_offsets[r + 1]
          /\ model.csr_offsets[rows + 1] = Len(model.csr_indices)
          /\ Len(model.csr_indices) = Len(model.csr_values)
          /\ Len(model.constraint_ub) = rows
          /\ \A r \in 1..rows : \A p, o \in RowPositions(model, r) :
                p < o => model.csr_indices[p] < model.csr_indices[o]
          /\ \A p \in DOMAIN model.csr_indices :
                model.csr_indices[p] \in 0..(NumVars(model) - 1)

\* a built model with an empty row followed by a row of several entries
C8_Witness ==
    /\ pc = "built"
    /\ \E r \in 1..(NumRows(model) - 1) :
          /\ RowPositions(model, r) = {}
          /\ \E o \in (r + 1)..NumRows(model) : Cardinality(RowPositions(model, o)) >= 2

\* C9: for every origin i and activity a in B/\A1 (Eq. 2) resp. B/\A2
\* (Eq. 3) there is exactly one row; its bounds are both d[a,i]; its stored
\* entries are exactly coefficient 1 on x[a,i,j,k] for j in M, k from i to the
\* window end, b[k,j] = 1
C9_IndependentRows ==
    pc = "built" =>
      \A eq \in {"Eq(2)", "Eq(3)"} :
        LET acts == Range(instance.B)
                    \cap (IF eq = "Eq(2)" THEN Range(instance.A1) ELSE Range(instance.A2))
        IN  /\ Cardinality(RowsOf(model, eq)) = instance.n * Cardinality(acts)
            /\ \A i \in Range(instance.N), a \in acts :
                 /\ Cardinality(RowsTagged(model, eq, <<i, a>>)) = 1
                 /\ \A r \in RowsTagged(model, eq, <<i, a>>) :
                      /\ model.constraint_lb[r] = Num(instance.d[<<a, i>>])
                      /\ model.constraint_ub[r] = Num(instance.d[<<a, i>>])
                      /\ RowEntries(model, r) =
                           {<<model.x_aijk[<<a, i, j, k>>], Float(1)>> :
                              <<j, k>> \in {jk \in Range(instance.M)
                                               \X (i..WindowEnd(instance, eq, i, a, ws_mode)) :
                                            instance.b[<<jk[2], jk[1]>>] = 1}}

\* a WAES model with rows of both families, one of them over a window that
\* holds a covered and an uncovered (interval, shift) pair
C9_Witness ==
    /\ pc = "built"
    /\ ~ws_mode
    /\ RowsOf(model, "Eq(2)") # {}
    /\ RowsOf(model, "Eq(3)") # {}
    /\ \E i \in Range(instance.N), a \in Range(instance.B) \cap Range(instance.A1) :
         /\ \E j \in Range(instance.M), k \in i..WindowEnd(instance, "Eq(2)", i, a, ws_mode) :
               instance.b[<<k, j>>] = 0
         /\ \E r \in RowsTagged(model, "Eq(2)", <<i, a>>) :
               Cardinality(RowPositions(model, r)) >= 2

\* the coefficient the claim gives a dependent row (k, a) on variable col:
\* b[kp,j] on x[a,k,j,kp] for kp in the window, minus s[a,g] on x[g,i,j,k] for
\* every parent g and every origin i, contributions to one variable added up
DependentCoeff(m, inst, eq, k, a, ws, col) ==
    LET window == {key \in DOMAIN m.x_aijk :
                      /\ m.x_aijk[key] = col
                      /\ key[1] = a /\ key[2] = k
                      /\ key[4] \in k..WindowEnd(inst, eq, k, a, ws)}
        covered == IF window = {} THEN 0
                   ELSE LET hit == CHOOSE key \in window : TRUE
                        IN  Float(inst.b[<<hit[4], hit[3]>>])
    IN  covered
        - SumSeq([p \in DOMAIN inst.Ga[a] |->
            IF \E key \in DOMAIN m.x_aijk :
                  m.x_aijk[key] = col /\ key[1] = inst.Ga[a][p] /\ key[4] = k
            THEN inst.s[<<a, inst.Ga[a][p]>>]
            ELSE 0])

\* C10: for every interval k and activity a in C/\A1 (Eq. 4) resp. C/\A2
\* (Eq. 5) there is exactly one row, with lower bound 0 and no upper bound,
\* whose coefficient on every variable is the window term minus the parent
\* terms, added up
C10_DependentRows ==
    pc = "built" =>
      \A eq \in {"Eq(4)", "Eq(5)"} :
        LET acts == Range(instance.C)
                    \cap (IF eq = "Eq(4)" THEN Range(instance.A1) ELSE Range(instance.A2))
        IN  /\ Cardinality(RowsOf(model, eq)) = instance.n * Cardinality(acts)
            /\ \A k \in Range(instance.N), a \in acts :
                 /\ Cardinality(RowsTagged(model, eq, <<k, a>>)) = 1
                 /\ \A r \in RowsTagged(model, eq, <<k, a>>) :
                      /\ model.constraint_lb[r] = Num(0)
                      /\ model.constraint_ub[r] = Inf
                      /\ \A col \in 0..(NumVars(model) - 1) :
                            RowCoeff(model, r, col)
                              = DependentCoeff(model, instance, eq, k, a, ws_mode, col)

\* a built model with a dependent row on which a window term and a parent
\* term fall on the same variable and on which a parent term of a later origin
\* (i > k) appears
C10_Witness ==
    /\ pc = "built"
    /\ \E k \in Range(instance.N), a \in Range(instance.C) :
         /\ a \in Range(instance.Ga[a])
         /\ \E r \in RowsTagged(model, "Eq(4)", <<k, a>>) :
              \E j \in Range(instance.M), i \in Range(instance.N) :
                 /\ i > k
                 /\ RowCoeff(model, r, model.x_aijk[<<a, i, j, k>>]) < 0
                 /\ instance.b[<<k, j>>] = 1
                 /\ RowCoeff(model, r, model.x_aijk[<<a, k, j, k>>])
                      = Float(1) - instance.s[<<a, a>>]

\* C11: for every interval k, shift j and activity a there is exactly one
\* Eq. (6) row; its bounds are -infinity and 0; its stored entries are exactly
\* +1 on x[a,i,j,k] for the origins 1 <= i <= k and -1 on y_tija[t,k,j,a] for
\* the profiles t in Ta[a]
C11_CapacityRows ==
    pc = "built" =>
      /\ Cardinality(RowsOf(model, "Eq(6)"))
            = instance.n * Len(instance.M) * Len(instance.A)
      /\ \A k \in Range(instance.N), j \in Range(instance.M), a \in Range(instance.A) :
            /\ Cardinality(RowsTagged(model, "Eq(6)", <<k, j, a>>)) = 1
            /\ \A r \in RowsTagged(model, "Eq(6)", <<k, j, a>>) :
                  /\ model.constraint_lb[r] = NInf
                  /\ model.constraint_ub[r] = Num(0)
                  /\ RowEntries(model, r) =
                        {<<model.x_aijk[<<a, i, j, k>>], Float(1)>> : i \in 1..k}
                        \cup {<<model.y_tija[<<t, k, j, a>>], -Float(1)>> :
                                 t \in Range(instance.Ta[a])}

\* a built model with a capacity row of an interval before the last one (so
\* later origins exist and are left out) for an activity two profiles can do
C11_Witness ==
    /\ pc = "built"
    /\ \E k \in Range(instance.N), j \in Range(instance.M), a \in Range(instance.A) :
          /\ k >= 2 /\ k < instance.n
          /\ Len(instance.Ta[a]) >= 2
          /\ \E r \in RowsTagged(model, "Eq(6)", <<k, j, a>>) :
                Cardinality(RowPositions(model, r)) = k + Len(instance.Ta[a])

\* C12: for every interval i, shift j and profile t there is exactly one
\* Eq. (7) row; its bounds are -infinity and 0; its stored entries are exactly
\* +1 on y_tija[t,i,j,a] for the activities a in Ht[t] and -1 on y_tj[t,j]
C12_AssignmentRows ==
    pc = "built" =>
      /\ Cardinality(RowsOf(model, "Eq(7)"))
            = instance.n * Len(instance.M) * Len(instance.T)
      /\ \A i \in Range(instance.N), j \in Range(instance.M), t \in Range(instance.T) :
            /\ Cardinality(RowsTagged(model, "Eq(7)", <<i, j, t>>)) = 1
            /\ \A r \in RowsTagged(model, "Eq(7)", <<i, j, t>>) :
                  /\ model.constraint_lb[r] = NInf
                  /\ model.constraint_ub[r] = Num(0)
                  /\ RowEntries(model, r) =
                        {<<model.y_tija[<<t, i, j, a>>], Float(1)>> :
                            a \in Range(instance.Ht[t])}
                        \cup {<<model.y_tj[<<t, j>>], -Float(1)>>}

\* a built model with an assignment row of a profile that can perform several
\* activities but not all of them
C12_Witness ==
    /\ pc = "built"
    /\ \E i \in Range(instance.N), j \in Range(instance.M), t \in Range(instance.T) :
          /\ Len(instance.Ht[t]) >= 2
          /\ Range(instance.Ht[t]) # Range(instance.A)
          /\ \E r \in RowsTagged(model, "Eq(7)", <<i, j, t>>) :
                Cardinality(RowPositions(model, r)) = Len(instance.Ht[t]) + 1

\* C13: for every interval i there is exactly one Eq. (8) row; its bounds are
\* -infinity and q; its stored entries are exactly +1 on y_tija[t,i,j,a] for
\* every profile t, shift j and activity a of A; and a row with a finite
\* non-zero upper bound is either an Eq. (8) row or a demand row whose upper
\* bound is its demand value
C13_ConcurrencyRows ==
    pc = "built" =>
      /\ Cardinality(RowsOf(model, "Eq(8)")) = instance.n
      /\ \A i \in Range(instance.N) :
            /\ Cardinality(RowsTagged(model, "Eq(8)", <<i>>)) = 1
            /\ \A r \in RowsTagged(model, "Eq(8)", <<i>>) :
                  /\ model.constraint_lb[r] = NInf
                  /\ model.constraint_ub[r] = Num(Float(instance.q))
                  /\ RowEntries(model, r) =
                        {<<model.y_tija[<<t, i, j, a>>], Float(1)>> :
                            <<t, j, a>> \in Range(instance.T) \X Range(instance.M)
                                            \X Range(instance.A)}
      /\ \A r \in 1..NumRows(model) :
            (model.constraint_ub[r].kind = "num" /\ model.constraint_ub[r].val # 0)
              => \/ model.row_tags[r].equation = "Eq(8)"
                 \/ /\ model.row_tags[r].equation \in {"Eq(2)", "Eq(3)"}
                    /\ LET key == model.row_tags[r].detail.key
                       IN  model.constraint_ub[r].val = instance.d[<<key[2], key[1]>>]

\* a built model with a concurrency row that has entries for activities the
\* profile cannot perform, next to demand rows with a non-zero bound
C13_Witness ==
    /\ pc = "built"
    /\ \E t \in Range(instance.T) : Range(instance.Ht[t]) # Range(instance.A)
    /\ \E r \in RowsOf(model, "Eq(8)") :
          Cardinality(RowPositions(model, r))
            = Len(instance.T) * Len(instance.M) * Len(instance.A)
    /\ \E r \in RowsOf(model, "Eq(2)") : model.constraint_ub[r].val > 0

\* C14: for every profile t and full-time shift j in M1, and for no other
\* shift, there is exactly one Eq. (9) row; its upper bound is 0; its stored
\* entries are exactly +1 on y_tija[t,i,j,a] for i in Oj[j], a in Ht[t], and
\* -(f - p) on y_tj[t,j], the latter not stored when f = p
C14_BreakRows ==
    pc = "built" =>
      /\ Cardinality(RowsOf(model, "Eq(9)")) = Len(instance.T) * Len(instance.M1)
      /\ \A r \in RowsOf(model, "Eq(9)") :
            model.row_tags[r].detail.key[2] \in Range(instance.M1)
      /\ \A t \in Range(instance.T), j \in Range(instance.M1) :
            /\ Cardinality(RowsTagged(model, "Eq(9)", <<t, j>>)) = 1
            /\ \A r \in RowsTagged(model, "Eq(9)", <<t, j>>) :
                  /\ model.constraint_ub[r] = Num(0)
                  /\ model.constraint_lb[r] = NInf
                  /\ RowEntries(model, r) =
                        {<<model.y_tija[<<t, i, j, a>>], Float(1)>> :
                            <<i, a>> \in Range(instance.Oj[j]) \X Range(instance.Ht[t])}
                        \cup (IF instance.f = instance.p THEN {}
                              ELSE {<<model.y_tj[<<t, j>>],
                                      -Float(instance.f - instance.p)>>})
                  /\ instance.f = instance.p =>
                        RowCoeff(model, r, model.y_tj[<<t, j>>]) = 0

\* a built model with a full-time and a part-time shift and a break as long as
\* the break window (f = p): the row holds the assignments only
C14_Witness ==
    /\ pc = "built"
    /\ instance.f = instance.p
    /\ instance.M2 # <<>>
    /\ \E t \in Range(instance.T), j \in Range(instance.M1) :
          \E r \in RowsTagged(model, "Eq(9)", <<t, j>>) :
             /\ RowPositions(model, r) # {}
             /\ \A e \in RowEntries(model, r) : e[2] = Float(1)

\* C15: there is exactly one Eq. (10) row and it is the last row of the
\* matrix; its upper bound is 0; its stored coefficient is 1 - w on y_tj[t,j]
\* for the part-time shifts j in M2 and -w for the full-time shifts j in M1,
\* and a coefficient that is zero (w = 1 for M2, w = 0 for M1) is not stored
C15_ShareRow ==
    pc = "built" =>
      /\ RowsOf(model, "Eq(10)") = {NumRows(model)}
      /\ \A r \in RowsOf(model, "Eq(10)") :
            /\ model.constraint_ub[r] = Num(0)
            /\ model.constraint_lb[r] = NInf
            /\ RowEntries(model, r) =
                  {<<model.y_tj[<<t, j>>], Float(1) - instance.w>> :
                      <<t, j>> \in {tj \in Range(instance.T) \X Range(instance.M2) :
                                      instance.w # Float(1)}}
                  \cup {<<model.y_tj[<<t, j>>], -instance.w>> :
                      <<t, j>> \in {tj \in Range(instance.T) \X Range(instance.M1) :
                                      instance.w # 0}}
            /\ \A p \in RowPositions(model, r) : model.csr_values[p] # 0

\* a built model with shifts of both kinds and w = 0: the share row holds the
\* part-time headcounts only, the full-time ones having cancelled to nothing
C15_Witness ==
    /\ pc = "built"
    /\ instance.M1 # <<>> /\ instance.M2 # <<>>
    /\ instance.w = 0
    /\ Cardinality(RowPositions(model, NumRows(model)))
          = Len(instance.T) * Len(instance.M2)
    /\ model.row_tags[NumRows(model)].equation = "Eq(10)"

\* C16: every variable of the built model is of kind integer with lower bound
\* 0 and upper bound q; the objective coefficient of y_tj[t,j] is
\* c[t] * shift_cost_multiplier[j] and that of every x and y_tija variable is
\* 0; and the payload made of the model asks for a minimisation of exactly
\* these coefficients
C16_Declarations ==
    pc = "built" =>
      /\ Len(model.variable_types) = NumVars(model)
      /\ Len(model.variable_lb) = NumVars(model)
      /\ Len(model.variable_ub) = NumVars(model)
      /\ Len(model.objective_coeffs) = NumVars(model)
      /\ \A idx \in 1..NumVars(model) :
            /\ model.variable_types[idx] = "I"
            /\ model.variable_lb[idx] = Num(0)
            /\ model.variable_ub[idx] = Num(Float(instance.q))
      /\ \A key \in DOMAIN model.y_tj :
            model.objective_coeffs[model.y_tj[key] + 1]
              = Mul(instance.c[key[1]], instance.shift_cost_multiplier[key[2]])
      /\ \A key \in DOMAIN model.x_aijk :
            model.objective_coeffs[model.x_aijk[key] + 1] = 0
      /\ \A key \in DOMAIN model.y_tija :
            model.objective_coeffs[model.y_tija[key] + 1] = 0
      /\ \A solver_config \in SolverConfigs :
            LET payload == to_server_payload(model, solver_config)
            IN  /\ payload.maximize = FALSE
                /\ payload.objective_data.coefficients = model.objective_coeffs
                /\ payload.variable_types = model.variable_types
                /\ payload.variable_bounds.lower_bounds = model.variable_lb
                /\ payload.variable_bounds.upper_bounds = model.variable_ub

\* a built model with a part-time shift cheaper than the full-time one: two
\* y_tj variables of one profile carry different objective coefficients
C16_Witness ==
    /\ pc = "built"
    /\ \E key, other \in DOMAIN model.y_tj :
          /\ key[1] = other[1]
          /\ model.objective_coeffs[model.y_tj[key] + 1]
                > model.objective_coeffs[model.y_tj[other] + 1]
          /\ model.objective_coeffs[model.y_tj[other] + 1] > 0
    /\ instance.q >= 2

\* the variables on the demand side of demand row r: x[a,i,j,k] of the row's
\* own activity a and index i
DemandSide(m, r) ==
    LET key == m.row_tags[r].detail.key
    IN  {xkey \in DOMAIN m.x_aijk : xkey[1] = key[2] /\ xkey[2] = key[1]}

\* C17: the WS and the WAES encoding of an instance have the same rows in the
\* same family order with the same bounds; the rows of Eq. (6) to (10) are the
\* same coefficient for coefficient; the rows of Eq. (2) to (5) differ on
\* demand-side variables only, and the demand-side coefficients of a WS row
\* fall on x[a,i,j,k] with k = i only
C17_WsStructure ==
    pc = "built" =>
      LET ws   == IF ws_mode THEN model ELSE build_ws_model(instance)
          waes == IF ws_mode THEN build_waes_model(instance, FALSE) ELSE model
      IN  /\ NumRows(ws) = NumRows(waes)
          /\ ws.row_tags = waes.row_tags
          /\ ws.constraint_lb = waes.constraint_lb
          /\ ws.constraint_ub = waes.constraint_ub
          /\ NumVars(ws) = NumVars(waes)
          /\ \A r \in 1..NumRows(ws) :
                IF ws.row_tags[r].equation \in {"Eq(2)", "Eq(3)", "Eq(4)", "Eq(5)"}
                THEN /\ \A xkey \in DemandSide(ws, r) :
                           RowCoeff(ws, r, ws.x_aijk[xkey]) # 0
                             => xkey[4] = xkey[2]
                     /\ \A col \in 0..(NumVars(ws) - 1) :
                           col \notin {ws.x_aijk[xkey] : xkey \in DemandSide(ws, r)}
                             => RowCoeff(ws, r, col) = RowCoeff(waes, r, col)
                ELSE RowEntries(ws, r) = RowEntries(waes, r)

\* a built WAES model with independent and dependent demand rows that are not
\* the rows of the WS encoding (some execution is deferred)
C17_Witness ==
    /\ pc = "built"
    /\ ~ws_mode
    /\ LET ws == build_ws_model(instance)
       IN  /\ \E r \in RowsOf(model, "Eq(2)") :
                 RowEntries(model, r) # RowEntries(ws, r)
           /\ \E r \in RowsOf(model, "Eq(5)") :
                 RowEntries(model, r) # RowEntries(ws, r)

\* the demand families and the activities each has rows for
DemandFamilies == {"Eq(2)", "Eq(3)", "Eq(4)", "Eq(5)"}

DemandActs(inst, eq) ==
    (IF eq \in {"Eq(2)", "Eq(3)"} THEN Range(inst.B) ELSE Range(inst.C))
    \cap (IF eq \in {"Eq(2)", "Eq(4)"} THEN Range(inst.A1) ELSE Range(inst.A2))

\* the execution window of demand row (i, a) is degenerate: it is empty, or
\* no shift covers any of its intervals
Degenerate(inst, eq, i, a, ws) ==
    \A j \in Range(inst.M), k \in i..WindowEnd(inst, eq, i, a, ws) :
        inst.b[<<k, j>>] = 0

\* the usual bounds of a demand row: d[a,i] twice in the independent
\* families, 0 and no upper bound in the dependent ones
UsualBounds(m, inst, eq, i, a, r) ==
    IF eq \in {"Eq(2)", "Eq(3)"}
    THEN /\ m.constraint_lb[r] = Num(inst.d[<<a, i>>])
         /\ m.constraint_ub[r] = Num(inst.d[<<a, i>>])
    ELSE /\ m.constraint_lb[r] = Num(0)
         /\ m.constraint_ub[r] = Inf

\* every demand row is emitted once, whatever its window
AllDemandRowsEmitted(m, inst) ==
    \A eq \in DemandFamilies :
       /\ Cardinality(RowsOf(m, eq)) = inst.n * Cardinality(DemandActs(inst, eq))
       /\ \A i \in Range(inst.N), a \in DemandActs(inst, eq) :
             Cardinality(RowsTagged(m, eq, <<i, a>>)) = 1

\* C19 as stated: a demand row with a degenerate window is emitted with no
\* stored coefficients, its offset equal to the previous one, and its usual
\* bounds; the row count is what it is for any window
C19_DegenerateAsStated ==
    pc = "built" =>
      /\ AllDemandRowsEmitted(model, instance)
      /\ \A eq \in DemandFamilies :
           \A i \in Range(instance.N), a \in DemandActs(instance, eq) :
              Degenerate(instance, eq, i, a, ws_mode) =>
                \A r \in RowsTagged(model, eq, <<i, a>>) :
                   /\ RowPositions(model, r) = {}
                   /\ model.csr_offsets[r + 1] = model.csr_offsets[r]
                   /\ UsualBounds(model, instance, eq, i, a, r)

\* C19 amended: a demand row with a degenerate window is emitted with its
\* usual bounds and the row count is what it is for any window; in the
\* independent families (Eq. 2, 3) it has no stored coefficients and its
\* offset equals the previous one; in the dependent families (Eq. 4, 5) it
\* stores the parent terms and nothing else: -s[a,g] on x[g,i,j,k] for every
\* parent g, origin i and shift j, added up per variable
C19_Degenerate ==
    pc = "built" =>
      /\ AllDemandRowsEmitted(model, instance)
      /\ \A eq \in DemandFamilies :
           \A i \in Range(instance.N), a \in DemandActs(instance, eq) :
              Degenerate(instance, eq, i, a, ws_mode) =>
                \A r \in RowsTagged(model, eq, <<i, a>>) :
                   /\ UsualBounds(model, instance, eq, i, a, r)
                   /\ IF eq \in {"Eq(2)", "Eq(3)"}
                      THEN /\ RowPositions(model, r) = {}
                           /\ model.csr_offsets[r + 1] = model.csr_offsets[r]
                      ELSE \A key \in DOMAIN model.x_aijk :
                              RowCoeff(model, r, model.x_aijk[key])
                                = IF key[4] = i
                                  THEN - SumSeq([p \in DOMAIN instance.Ga[a] |->
                                           IF instance.Ga[a][p] = key[1]
                                           THEN instance.s[<<a, key[1]>>] ELSE 0])
                                  ELSE 0

\* a built model with an independent row and a dependent row over windows
\* no shift covers, the dependent one storing parent terms
C19_Witness ==
    /\ pc = "built"
    /\ \E i \in Range(instance.N), a \in DemandActs(instance, "Eq(2)") :
          /\ Degenerate(instance, "Eq(2)", i, a, ws_mode)
          /\ \E r \in RowsTagged(model, "Eq(2)", <<i, a>>) :
                model.csr_offsets[r + 1] = model.csr_offsets[r]
    /\ \E i \in Range(instance.N), a \in DemandActs(instance, "Eq(5)") :
          /\ Degenerate(instance, "Eq(5)", i, a, ws_mode)
          /\ \E r \in RowsTagged(model, "Eq(5)", <<i, a>>) :
                RowPositions(model, r) # {}

-----------------------------------------------------------------------------
(* The scenario (checked under SpecScenario)                               *)

\* C18: on the scenario the Encoder emits exactly two Eq. (2) rows, with both
\* bounds 3 for i = 1 and 2 for i = 2, each with one stored coefficient, on
\* x[a,i,shift,i]; and the assignment x[a,1,shift,1] = 3, x[a,2,shift,2] = 2
\* with y_tija equal to it and y_tj = 3 passes run_audits with no issue
C18_Scenario ==
    /\ pc \in {"built", "solved", "collected", "audited", "exported", "failed"} =>
          /\ Cardinality(RowsOf(model, "Eq(2)")) = 2
          /\ \A i \in {1, 2} :
                /\ Cardinality(RowsTagged(model, "Eq(2)", <<i, 1>>)) = 1
                /\ \A r \in RowsTagged(model, "Eq(2)", <<i, 1>>) :
                      /\ model.constraint_lb[r] = Num(Float(4 - i))
                      /\ model.constraint_ub[r] = Num(Float(4 - i))
                      /\ \A col \in 0..(NumVars(model) - 1) :
                            RowCoeff(model, r, col) # 0
                              <=> col = model.x_aijk[<<1, i, 1, i>>]
    /\ (pc = "audited" /\ response = ScenarioAssignment(model, instance)) =>
          /\ report.passed
          /\ report.issues = <<>>

\* the scenario's assignment has been audited: x[a,1,shift,1] = 3,
\* x[a,2,shift,2] = 2, headcount 3
C18_Witness ==
    /\ pc = "audited"
    /\ response = ScenarioAssignment(model, instance)
    /\ solved.x_aijk[<<1, 1, 1, 1>>] = Float(3)
    /\ solved.x_aijk[<<1, 2, 1, 2>>] = Float(2)
    /\ solved.x_aijk[<<1, 1, 1, 2>>] = 0
    /\ solved.y_tija[<<1, 1, 1, 1>>] = Float(3)
    /\ solved.y_tija[<<1, 2, 1, 1>>] = Float(2)
    /\ solved.y_tj[<<1, 1>>] = Float(3)
    /\ instance.q = 10
    /\ instance.n = 2
    /\ instance.v[1] = 0

-----------------------------------------------------------------------------
(* The integrality check (checked under SpecIntegrality)                   *)

\* the distance of a value in units of 1e-5 to its nearest integer
FineGap(value) == Min2(value % Fine, Fine - (value % Fine))

\* the Eq. (11) issues the report has for one variable
IntegralityIssues(rep, var, key) ==
    {p \in DOMAIN rep.issues :
        rep.issues[p].equation = "Eq(11)" /\ rep.issues[p].detail = Detail(var, key)}

\* the solved variables, as (catalog name, key, value)
SolvedEntries(sv) ==
    {<<"x", key, sv.x_aijk[key]>> : key \in DOMAIN sv.x_aijk}
    \cup {<<"y_tija", key, sv.y_tija[key]>> : key \in DOMAIN sv.y_tija}
    \cup {<<"y_tj", key, sv.y_tj[key]>> : key \in DOMAIN sv.y_tj}

\* C20: the report has an Eq. (11) issue for a solved x, y_tija or y_tj value
\* exactly when its distance to the nearest integer strictly exceeds tol (and
\* then one issue); at tol = 1e-4 the value 2.00004 gives no issue and the
\* value 2.0002 gives one
C20_Integrality ==
    pc = "audited" =>
      \A entry \in SolvedEntries(solved) :
         LET n_issues == Cardinality(IntegralityIssues(report, entry[1], entry[2]))
         IN  /\ n_issues = (IF FineGap(entry[3]) > tol THEN 1 ELSE 0)
             /\ (tol = 10 /\ entry[3] = 200004) => n_issues = 0
             /\ (tol = 10 /\ entry[3] = 200020) => n_issues = 1

\* audited at tol = 1e-4: x = 2.00004 without an issue, y_tija = 2.0002 with
\* one, and y_tj = 2.0001, exactly tol away from 2, without one
C20_Witness ==
    /\ pc = "audited"
    /\ tol = 10
    /\ solved.x_aijk[<<1, 1, 1, 1>>] = 200004
    /\ solved.y_tija[<<1, 1, 1, 1>>] = 200020
    /\ solved.y_tj[<<1, 1>>] = 200010
    /\ IntegralityIssues(report, "x", <<1, 1, 1, 1>>) = {}
    /\ IntegralityIssues(report, "y_tija", <<1, 1, 1, 1>>) # {}
    /\ IntegralityIssues(report, "y_tj", <<1, 1>>) = {}
    /\ Len(report.issues) = 1

-----------------------------------------------------------------------------
(* Instance validation (checked under SpecValidate)                        *)

\* the pairs (a, t) with t listed in Ta[a], a in A, and those with a listed
\* in Ht[t], t in T
TaPairs(inst) ==
    UNION {{<<a, t>> : t \in Range(inst.Ta[a])} :
              a \in Range(inst.A) \cap DOMAIN inst.Ta}

HtPairs(inst) ==
    UNION {{<<a, t>> : a \in Range(inst.Ht[t])} :
              t \in Range(inst.T) \cap DOMAIN inst.Ht}

\* the contract violations the claim lists, each with the messages that
\* report it
ContractViolations(inst) ==
    {viol \in
       {[broken |-> Range(inst.M1) \cap Range(inst.M2) # {},
         told   |-> {"M1 and M2 must be disjoint."}],
        [broken |-> Range(inst.M) # Range(inst.M1) \cup Range(inst.M2),
         told   |-> {"M must equal M1 union M2."}],
        [broken |-> Range(inst.B) \cap Range(inst.C) # {},
         told   |-> {"B and C must be disjoint."}],
        [broken |-> Range(inst.A) # Range(inst.B) \cup Range(inst.C),
         told   |-> {"A must equal B union C."}],
        [broken |-> Range(inst.A1) \cap Range(inst.A2) # {},
         told   |-> {"A1 and A2 must be disjoint."}],
        [broken |-> Range(inst.A) # Range(inst.A1) \cup Range(inst.A2),
         told   |-> {"A must equal A1 union A2."}],
        [broken |-> inst.N # [i \in 1..inst.n |-> i],
         told   |-> {"N must be exactly {1, ..., n}."}],
        [broken |-> TaPairs(inst) # HtPairs(inst),
         told   |-> {"Ta has unknown profile.", "Inconsistent Ta/Ht.",
                     "Ht includes unknown activity.", "Inconsistent Ht/Ta."}],
        [broken |-> \E j \in Range(inst.M1) :
                       \/ j \notin DOMAIN inst.Oj
                       \/ Len(inst.Oj[j]) # inst.f
                       \/ ~(Range(inst.Oj[j]) \subseteq Range(inst.N)),
         told   |-> {"Missing Oj.", "Oj should have exactly f intervals.",
                     "Oj contains i outside N."}],
        [broken |-> inst.w < 0 \/ inst.w > One,
         told   |-> {"w must be in [0, 1]."}],
        [broken |-> inst.q <= 0, told |-> {"q must be positive."}],
        [broken |-> inst.f <= 0, told |-> {"f must be positive."}],
        [broken |-> inst.p < 0, told |-> {"p must be nonnegative."}]} :
       viol.broken}

\* C21: validate_instance raises ValueError exactly when its list of failed
\* checks is not empty; every contract violation of the instance (M1/M2,
\* B/C, A1/A2, N, Ta/Ht, break windows, w, q, f, p) makes it raise and is
\* named in the list, whatever else failed; when it returns, none is broken
C21_Validation ==
    /\ pc = "ValueError" =>
          /\ errors # {}
          /\ \A viol \in ContractViolations(instance) : viol.told \cap errors # {}
    /\ pc = "validated" =>
          /\ errors = {}
          /\ ContractViolations(instance) = {}

\* validate_instance has raised on an instance that breaks three contracts
\* at once, the break window of a full-time shift among them
C21_Witness ==
    /\ pc = "ValueError"
    /\ Cardinality(ContractViolations(instance)) >= 3
    /\ Cardinality(errors) >= 3
    /\ "Oj should have exactly f intervals." \in errors
    /\ \E viol \in ContractViolations(instance) : "q must be positive." \in viol.told

-----------------------------------------------------------------------------
(* The pipeline (checked under SpecMain)                                   *)

\* the positions of build_waes_model, in order, and those of _run_one_mode
\* after the build: solve, unpack, audit, export
BuildOrder == <<"start", "eq2", "eq3", "eq4", "eq5", "eq6", "eq7", "eq8", "eq9", "eq10", "built">>

ModeOrder == BuildOrder \o <<"solved", "collected", "audited", "exported">>

\* C22: within a mode the steps follow one another as build, solve, unpack,
\* audit, export; the CSVs of a mode are written only in the step after
\* run_audits returned passed = true for that mode; when the audit reports an
\* issue the next step is the RuntimeError, nothing is written and nothing
\* follows; a second mode (ws) is started only in mode 'both', from the
\* exported state of waes
C22_PipelineOrder ==
    [][ /\ (pc \in Range(ModeOrder) /\ pc # "exported" /\ pc # "audited") =>
              \E p \in 1..(Len(ModeOrder) - 1) : pc = ModeOrder[p] /\ pc' = ModeOrder[p + 1]
        /\ pc = "audited" =>
              IF report.passed /\ report.issues = <<>>
              THEN /\ pc' = "exported"
                   /\ written' = Append(written, modes[1])
                   /\ modes[1] = ModeName(ws_mode)
              ELSE /\ pc' = "failed"
                   /\ written' = written
        /\ pc # "audited" => written' = written
        /\ pc = "failed" => FALSE
        /\ (pc \in Range(ModeOrder) /\ pc # "exported") => (modes' = modes /\ ws_mode' = ws_mode)
        /\ pc' = "start" =>
              /\ pc = "exported"
              /\ modes = <<"waes", "ws">>
              /\ written = <<"waes">>
              /\ ~ws_mode /\ ws_mode'
              /\ Len(model'.constraint_lb) = 0
      ]_vars

\* mode 'both' has run to its end: waes written, then ws
C22_Witness ==
    /\ pc = "done"
    /\ modes = <<>>
    /\ written = <<"waes", "ws">>
    /\ DOMAIN solved_by_mode = {"waes", "ws"}

-----------------------------------------------------------------------------
(* Bounded polling (checked under SpecPollFair)                            *)

\* a response that carries a request id and nothing else of interest
OnlyReqId(resp) == ~resp.has_response /\ resp.reqId # 0

\* solve_milp_payload has ended
PollEnded == pc \in {"returned", "RuntimeError", "TimeoutError"}

\* what solve_milp_payload has done so far is what the claim allows
PollOutcome ==
    pc # "submit" =>
      LET n    == Len(poll.received)
          last == poll.received[n]
      IN  /\ n = poll.tries + 1
          /\ poll.tries <= poll.repoll_tries
          /\ \A p \in 1..(n - 1) : OnlyReqId(poll.received[p])
          /\ pc = "TimeoutError" <=>
                (PollEnded /\ OnlyReqId(last) /\ poll.tries = poll.repoll_tries)
          /\ pc = "RuntimeError" <=>
                (PollEnded /\ \/ (~last.has_response /\ last.reqId = 0)
                              \/ (last.has_response /\ last.solver_response = 0))
          /\ pc = "returned" <=>
                (PollEnded /\ last.has_response /\ last.solver_response # 0)
          /\ pc = "returned" => poll.returned = last.solver_response
          /\ (PollEnded /\ OnlyReqId(last)) => poll.tries = poll.repoll_tries

\* C23: whatever the server answers, solve_milp_payload ends, after at most
\* repoll_tries repolls: with TimeoutError when the response after
\* repoll_tries repolls is still a request id only, with RuntimeError at the
\* first response that has neither 'response' nor 'reqId' or has 'response'
\* without 'solver_response', and otherwise by returning the solver_response
\* of the first response that has 'response'
C23_BoundedPolling == []PollOutcome /\ <>PollEnded

\* a run that used its whole budget of repolls and then got its answer
C23_Witness ==
    /\ pc = "returned"
    /\ poll.repoll_tries = MaxTries
    /\ poll.tries = poll.repoll_tries
    /\ poll.returned = 2

-----------------------------------------------------------------------------
(* Claims about the lookups (checked under SpecLookup)                     *)

\* the lookups that fail are those of x[(a_parent, i, j, k)] for a parent
\* that Ga lists and A does not
UnlistedParentOnly ==
    \A l \in Missing(BuildLookups(instance, ws_mode))
             \cup Missing(AuditLookups(instance, ws_mode)) :
        /\ l.dict = "x_aijk"
        /\ l.key[1] \notin Range(instance.A)
        /\ \E a \in Range(instance.C) : l.key[1] \in Range(instance.Ga[a])

\* C24: for every instance validate_instance accepts and for both modes,
\* every variable key and every data key looked up by build_waes_model, and
\* by run_audits on values unpacked from that model, exists, so neither
\* function raises a lookup error.
C24_NoLookupError ==
    validate_instance(instance) /\ pc # "validated" =>
        /\ Missing(BuildLookups(instance, ws_mode)) = {}
        /\ Missing(AuditLookups(instance, ws_mode)) = {}
        /\ pc # "KeyError"

\* build_waes_model raised KeyError on an accepted instance whose dependent
\* activity lists a parent outside A
C24_Witness ==
    /\ pc = "KeyError"
    /\ validate_instance(instance)
    /\ \E a \in Range(instance.C) : Stranger \in Range(instance.Ga[a])

-----------------------------------------------------------------------------
(* Claims about the Audit (checked under Spec)                             *)

\* run_audits has just returned its report
Audited == pc = "audited"

\* row coefficients times values, for primal vector `vector`
RowValue(m, r, vector) ==
    SumSeq([q \in 1..(m.csr_offsets[r + 1] - m.csr_offsets[r]) |->
              Mul(m.csr_values[m.csr_offsets[r] + q],
                  vector[m.csr_indices[m.csr_offsets[r] + q] + 1])])

\* by how much row r misses its bounds (0 when it is within them)
RowGap(m, r, vector) ==
    LET value == RowValue(m, r, vector)
        lb == m.constraint_lb[r]
        ub == m.constraint_ub[r]
        below == IF lb.kind = "num" THEN lb.val - value ELSE 0
        above == IF ub.kind = "num" THEN value - ub.val ELSE 0
    IN  Max2(0, Max2(below, above))

\* row lower bound <= row coefficients times values <= row upper bound
RowSatisfied(m, r, vector) ==
    /\ m.constraint_lb[r].kind \in {"num", "ninf"}
    /\ m.constraint_ub[r].kind \in {"num", "inf"}
    /\ RowGap(m, r, vector) = 0

\* the distance of a value to its nearest integer
IntGap(value) == Min2(value % One, One - (value % One))

\* the rows of the Encoder's model missed by more than t
BreachedRows(m, vector, t) == {r \in 1..NumRows(m) : RowGap(m, r, vector) > t}

\* the entries of the vector further than t from an integer
NonIntegral(vector, t) == {p \in DOMAIN vector : IntGap(vector[p]) > t}

\* the equation families with a constraint missed by more than t
BrokenFamilies(m, vector, t) ==
    {m.row_tags[r].equation : r \in BreachedRows(m, vector, t)}
    \cup (IF NonIntegral(vector, t) = {} THEN {} ELSE {"Eq(11)"})

\* the equation families the report has an issue for
ReportedFamilies(rep) == {rep.issues[p].equation : p \in DOMAIN rep.issues}

\* the variable index an integrality issue is about
IssueVariable(m, issue) ==
    IF issue.detail.var = "x" THEN m.x_aijk[issue.detail.key]
    ELSE IF issue.detail.var = "y_tija" THEN m.y_tija[issue.detail.key]
    ELSE m.y_tj[issue.detail.key]

\* C1: an integer-valued assignment satisfying every row the Encoder emitted
\* for the mode passes run_audits with the same mode, with no issue
C1_RoundTrip ==
    Audited =>
      ( ( /\ \A r \in 1..NumRows(model) : RowSatisfied(model, r, response)
          /\ \A p \in DOMAIN response : response[p] % One = 0 )
        => report.passed /\ report.issues = <<>> )

\* an audited integer assignment with a nonzero entry on a row with a nonzero
\* bound, satisfying every row
C1_Witness ==
    /\ pc = "audited"
    /\ \A r \in 1..NumRows(model) : RowSatisfied(model, r, response)
    /\ \A p \in DOMAIN response : response[p] % One = 0
    /\ \E r \in 1..NumRows(model) :
          /\ model.constraint_lb[r] = model.constraint_ub[r]
          /\ model.constraint_lb[r].val > 0
    /\ report.passed

\* the assignments one solved value away from the audited one, the value
\* changed by more than tol, that pass run_audits
PassingNeighbours ==
    {base \in {[response EXCEPT ![p] = val] : p \in DOMAIN response, val \in ValSet} :
        /\ \E p \in DOMAIN response : Abs(base[p] - response[p]) > tol
        /\ run_audits(instance, CollectSolution(model, base), ws_mode, tol).passed}

\* C2: when the audited assignment is a passing one with one value changed by
\* more than tol, and the constraints of exactly one family are broken (missed
\* by more than tol), the report has at least one issue and every issue is
\* tagged with that family
C2_Sensitivity ==
    Audited =>
      ( ( /\ Cardinality(BrokenFamilies(model, response, tol)) = 1
          /\ PassingNeighbours # {} )
        => /\ report.issues # <<>>
           /\ ReportedFamilies(report) = BrokenFamilies(model, response, tol) )

\* a passing assignment perturbed in one value so that only a dependent demand
\* family is broken
C2_Witness ==
    /\ pc = "audited"
    /\ BrokenFamilies(model, response, tol) \in {{"Eq(4)"}, {"Eq(5)"}}
    /\ PassingNeighbours # {}
    /\ ~report.passed

\* C3: the report lists one issue per breach in every family (a row missed by
\* more than tol, or a value further than tol from an integer), passed is
\* true exactly when the list is empty, and tolerance is the tol given
C3_Report ==
    Audited =>
      /\ report.passed = (report.issues = <<>>)
      /\ report.tolerance = tol
      /\ \A eq \in {model.row_tags[r].equation : r \in 1..NumRows(model)} :
            Cardinality({p \in DOMAIN report.issues : report.issues[p].equation = eq})
              = Cardinality({r \in BreachedRows(model, response, tol) :
                               model.row_tags[r].equation = eq})
      /\ Cardinality({p \in DOMAIN report.issues : report.issues[p].equation = "Eq(11)"})
            = Cardinality(NonIntegral(response, tol))
      /\ Len(report.issues)
            = Cardinality(BreachedRows(model, response, tol))
              + Cardinality(NonIntegral(response, tol))

\* a failed audit whose report lists breaches of several families, one of them
\* with several breaches
C3_Witness ==
    /\ pc = "audited"
    /\ Cardinality(ReportedFamilies(report)) >= 3
    /\ \E p, o \in DOMAIN report.issues :
          p # o /\ report.issues[p].equation = report.issues[o].equation
                /\ report.issues[p].equation # "Eq(11)"

\* the gap the claim gives an issue: |lhs - rhs| for Eq. 2, 3 and 11,
\* lhs - rhs for Eq. 6 to 10, rhs - lhs for Eq. 4 and 5, read off the row the
\* Encoder emitted for the same equation instance
IssueGap(m, vector, issue) ==
    IF issue.equation = "Eq(11)"
    THEN LET value == vector[IssueVariable(m, issue) + 1]
         IN  IntGap(value)
    ELSE LET r == CHOOSE r \in 1..NumRows(m) :
                     m.row_tags[r] = Tag(issue.equation, issue.detail.key)
             value == RowValue(m, r, vector)
         IN  IF issue.equation \in {"Eq(2)", "Eq(3)"}
             THEN Abs(value - m.constraint_lb[r].val)
             ELSE IF issue.equation \in {"Eq(4)", "Eq(5)"}
             THEN m.constraint_lb[r].val - value
             ELSE value - m.constraint_ub[r].val

\* C4: every recorded issue has the gap of its family as violation, and that
\* gap is more than tol and positive; a row or a value whose gap is tol or less
\* has no issue
C4_StrictTolerance ==
    Audited =>
      /\ \A p \in DOMAIN report.issues :
            /\ report.issues[p].violation = IssueGap(model, response, report.issues[p])
            /\ report.issues[p].violation > tol
            /\ report.issues[p].violation > 0
      /\ \A r \in 1..NumRows(model) :
            RowGap(model, r, response) <= tol =>
              ~\E p \in DOMAIN report.issues :
                   /\ report.issues[p].equation = model.row_tags[r].equation
                   /\ report.issues[p].detail = model.row_tags[r].detail
      /\ \A p \in DOMAIN report.issues :
            report.issues[p].equation = "Eq(11)" =>
              IssueVariable(model, report.issues[p]) + 1 \in NonIntegral(response, tol)

\* an audit with a positive tol where one row and one value miss by exactly
\* tol and are not recorded, while another breach is
C4_Witness ==
    /\ pc = "audited"
    /\ tol > 0
    /\ \E r \in 1..NumRows(model) :
          /\ RowGap(model, r, response) = tol
          /\ ~\E p \in DOMAIN report.issues :
                /\ report.issues[p].equation = model.row_tags[r].equation
                /\ report.issues[p].detail = model.row_tags[r].detail
    /\ \E p \in DOMAIN response : IntGap(response[p]) = tol
    /\ ~\E p \in DOMAIN report.issues : report.issues[p].equation = "Eq(11)"
    /\ report.issues # <<>>

-----------------------------------------------------------------------------
(* Claims about WS as a restriction of WAES (checked under SpecRestriction) *)

\* v[a] >= 0 for all a in A1
NonNegativeOffsets(inst) == \A a \in Range(inst.A1) : inst.v[a] >= 0

\* x[a, i, j, k] = 0 for all k # i
OffDiagonalZero(m, vector) ==
    \A key \in DOMAIN m.x_aijk : key[4] # key[2] => vector[m.x_aijk[key] + 1] = 0

\* the assignment satisfies every row of the model
SatisfiesRows(m, vector) == \A r \in 1..NumRows(m) : RowSatisfied(m, r, vector)

\* rows and variable bounds both hold
Feasible(m, vector) ==
    /\ SatisfiesRows(m, vector)
    /\ \A p \in DOMAIN vector :
          m.variable_lb[p].val <= vector[p] /\ vector[p] <= m.variable_ub[p].val

\* the objective values of the feasible assignments
FeasibleObjectives(m, inst) ==
    {Objective(m, vector) :
        vector \in {u \in RestrictionVectors(m, inst) : Feasible(m, u)}}

\* the least of a non-empty set of objective values
Least(values) == CHOOSE least \in values : \A other \in values : least <= other

\* the WS run has returned an assignment: model and response are those of WS
WsAssigned == ws_mode /\ pc \in {"exported", "failed", "ran", "done", "objective_error"}

\* an assignment that satisfies every WS row with x = 0 off the origin
\* interval satisfies every WAES row, with the same objective value
Restricts ==
    WsAssigned /\ NonNegativeOffsets(instance)
      /\ OffDiagonalZero(model, response) /\ SatisfiesRows(model, response) =>
        LET waes == build_waes_model(instance, FALSE)
        IN  /\ SatisfiesRows(waes, response)
            /\ Objective(waes, response) = Objective(model, response)

\* where WS has a feasible assignment WAES has one, and the least WAES
\* objective is not above the least WS objective
OptimaOrdered ==
    pc = "start" /\ solved_by_mode = EmptyDict /\ NonNegativeOffsets(instance) =>
        LET waes == FeasibleObjectives(build_waes_model(instance, FALSE), instance)
            ws   == FeasibleObjectives(build_waes_model(instance, TRUE), instance)
        IN  ws # {} => waes # {} /\ Least(waes) <= Least(ws)

\* _assert_waes_vs_ws raises exactly when both objectives are there and the
\* WAES one exceeds the WS one by more than tol
AssertEnforces ==
    /\ pc = "objective_error" =>
          /\ DOMAIN solved_by_mode = {"waes", "ws"}
          /\ solved_by_mode["waes"] - solved_by_mode["ws"] > tol
    /\ pc = "done" /\ DOMAIN solved_by_mode = {"waes", "ws"} =>
          solved_by_mode["waes"] - solved_by_mode["ws"] <= tol

\* C25: for a validated instance with v[a] >= 0 for all a in A1, any
\* assignment that satisfies every WS-mode row and has x[a,i,j,k] = 0 for all
\* k # i also satisfies every WAES-mode row with the same objective value, so
\* the optimal WAES objective is never greater than the optimal WS objective;
\* _assert_waes_vs_ws raises RuntimeError when the WAES objective exceeds the
\* WS objective by more than tol.
C25_WsRestrictsWaes == Restricts /\ OptimaOrdered /\ AssertEnforces

\* both modes ran and the assert returned; the WS assignment serves demand at
\* its origin interval only, satisfies every WS row, and some WAES row has
\* other entries than the WS row of the same number
C25_Witness ==
    /\ pc = "done"
    /\ DOMAIN solved_by_mode = {"waes", "ws"}
    /\ NonNegativeOffsets(instance)
    /\ OffDiagonalZero(model, response)
    /\ SatisfiesRows(model, response)
    /\ \E p \in DOMAIN response : response[p] # 0
    /\ \E r \in 1..NumRows(model) :
          RowEntries(build_waes_model(instance, FALSE), r) # RowEntries(model, r)

=============================================================================
